---- MODULE Spec2Model ----
(***************************************************************************)
(* Model of the course-conflict engine of the advising application:        *)
(* the enrollment aggregator, the standing classifier, the pair scorer,    *)
(* the two report builders (conflicts-only and matrix) and the client-side *)
(* course offering resolver with its memoized offering table.              *)
(*                                                                         *)
(* Conventions.                                                            *)
(*  - A JavaScript string that the code slices, parses or concatenates is  *)
(*    a sequence of one-character strings ("sp2026" is                     *)
(*    <<"s","p","2","0","2","6">>).                                         *)
(*  - yearsUntilGraduation is kept in half years (0.5 is 1).               *)
(*  - Seniority weights are kept doubled (2.0 is 4, 1.5 is 3, 1.0 is 2).   *)
(*  - A conflict score is kept in hundredths (0.8 is 80).                  *)
(*  - NaN, the result of parseInt on a string without leading digits, is   *)
(*    the value NaN below; every comparison with it is false as in JS.     *)
(***************************************************************************)
EXTENDS Integers, Sequences, FiniteSets, TLC

---------------------------------------------------------------------------
(* Strings                                                                 *)

DigitChars == <<"0", "1", "2", "3", "4", "5", "6", "7", "8", "9">>

IsDigit(ch) == \E i \in 1..Len(DigitChars) : DigitChars[i] = ch

DigitVal(ch) == (CHOOSE i \in 1..Len(DigitChars) : DigitChars[i] = ch) - 1

NaN == 0 - 1

\* Number of leading decimal digits of s.
RECURSIVE LeadingDigits(_)
LeadingDigits(s) ==
    IF s = <<>> \/ ~IsDigit(Head(s)) THEN 0 ELSE 1 + LeadingDigits(Tail(s))

RECURSIVE DigitsValue(_, _)
DigitsValue(s, acc) ==
    IF s = <<>> THEN acc ELSE DigitsValue(Tail(s), 10 * acc + DigitVal(Head(s)))

\* parseInt(s): the number written by the leading digits of s, NaN without any.
ParseInt(s) ==
    LET n == LeadingDigits(s)
    IN  IF n = 0 THEN NaN ELSE DigitsValue(SubSeq(s, 1, n), 0)

\* String(n) for a non-negative integer n.
RECURSIVE ToDigits(_)
ToDigits(n) ==
    IF n < 10 THEN <<DigitChars[n + 1]>>
    ELSE ToDigits(n \div 10) \o <<DigitChars[(n % 10) + 1]>>

\* s.slice(-4)
SliceLast4(s) == IF Len(s) <= 4 THEN s ELSE SubSeq(s, Len(s) - 3, Len(s))

\* s.slice(0, 2)
SliceFirst2(s) == IF Len(s) <= 2 THEN s ELSE SubSeq(s, 1, 2)

\* s.startsWith(p)
StartsWith(s, p) == Len(s) >= Len(p) /\ SubSeq(s, 1, Len(p)) = p

Fa == <<"f", "a">>

Sp == <<"s", "p">>

\* The semester token of a season prefix and a year: `${prefix}${year}`.
Token(prefix, year) == prefix \o ToDigits(year)

---------------------------------------------------------------------------
(* Academic classification                                                 *)

SeniorMaxHalves == 1

JuniorMaxHalves == 3

SophomoreMaxHalves == 5

\* yearsUntilGraduation of getStudentYear, in half years, from the year and
\* the two-letter prefix of the target token and the student's graduation
\* year and term.
YearsUntilGraduation(semesterYear, semesterType, gradYear, gradSemester) ==
    IF gradYear = semesterYear
    THEN IF semesterType = Sp /\ StartsWith(gradSemester, Fa) THEN 1
         ELSE IF semesterType = Fa /\ StartsWith(gradSemester, Sp) THEN 1
         ELSE 0
    ELSE IF semesterType = Sp /\ StartsWith(gradSemester, Fa)
         THEN 2 * (gradYear - semesterYear) - 1
         ELSE IF semesterType = Fa /\ StartsWith(gradSemester, Sp)
         THEN 2 * (gradYear - semesterYear) + 1
         ELSE 2 * (gradYear - semesterYear)

\* The classification of yearsUntilGraduation.
StandingOfYears(yearsUntilGraduation) ==
    IF yearsUntilGraduation <= SeniorMaxHalves THEN "Senior"
    ELSE IF yearsUntilGraduation <= JuniorMaxHalves THEN "Junior"
    ELSE IF yearsUntilGraduation <= SophomoreMaxHalves THEN "Sophomore"
    ELSE "Freshman"

\* getStudentYear once the target token is taken apart. A token without a
\* year gives semesterYear = NaN: every comparison is false, so Freshman.
StandingIn(semesterYear, semesterType, gradYear, gradSemester) ==
    IF semesterYear = NaN THEN "Freshman"
    ELSE StandingOfYears(YearsUntilGraduation(semesterYear, semesterType,
                                              gradYear, gradSemester))

getStudentYear(student, currentSemester) ==
    StandingIn(ParseInt(SliceLast4(currentSemester)), SliceFirst2(currentSemester),
               student.gradYear, student.expectedGraduation)

---------------------------------------------------------------------------
(* Enrollment aggregator                                                   *)

\* Position of the roster of course_id in the enrollment list, 0 when the
\* course has no roster yet (courseEnrollments[courseKey] is undefined).
EnrollmentIndex(enr, courseId) ==
    IF \E i \in 1..Len(enr) : enr[i].course_id = courseId
    THEN CHOOSE i \in 1..Len(enr) : enr[i].course_id = courseId
    ELSE 0

RosterEntry(student) ==
    [id |-> student.id, gradYear |-> student.gradYear,
     expectedGraduation |-> student.expectedGraduation]

\* The inner forEach without its status test: every plan entry is counted.
AddPlanEntryAnyStatus(enr, student, course) ==
    LET i == EnrollmentIndex(enr, course.course_id)
        created == IF i = 0
                   THEN Append(enr, [course_id  |-> course.course_id,
                                     department |-> course.department,
                                     number     |-> course.number,
                                     students   |-> <<>>])
                   ELSE enr
        k == IF i = 0 THEN Len(created) ELSE i
    IN  [created EXCEPT ![k].students = Append(@, RosterEntry(student))]

\* The body of the inner forEach: one plan entry of one student.
AddPlanEntry(enr, student, course) ==
    IF course.status = "planned"
    THEN LET i == EnrollmentIndex(enr, course.course_id)
             created == IF i = 0
                        THEN Append(enr, [course_id  |-> course.course_id,
                                          department |-> course.department,
                                          number     |-> course.number,
                                          students   |-> <<>>])
                        ELSE enr
             k == IF i = 0 THEN Len(created) ELSE i
         IN  [created EXCEPT ![k].students = Append(@, RosterEntry(student))]
    ELSE enr

RECURSIVE AddPlanEntries(_, _, _)
AddPlanEntries(enr, student, courses) ==
    IF courses = <<>> THEN enr
    ELSE AddPlanEntries(AddPlanEntry(enr, student, Head(courses)), student,
                        Tail(courses))

RECURSIVE AddStudents(_, _, _)
AddStudents(enr, studs, semester) ==
    IF studs = <<>> THEN enr
    ELSE LET student == Head(studs)
             next == IF semester \in DOMAIN student.plan
                     THEN AddPlanEntries(enr, student,
                                         student.plan[semester].courses)
                     ELSE enr
         IN  AddStudents(next, Tail(studs), semester)

\* courseEnrollments, as the list of its values in key insertion order.
getCoursesForSemester(studs, semester) == AddStudents(<<>>, studs, semester)

---------------------------------------------------------------------------
(* Course rarity                                                           *)

\* conflict-matrix.js: rows are matched on their course_id and semester.
calculateCourseRarity(courseId, sectionData, semester) ==
    Len(SelectSeq(sectionData,
                  LAMBDA section : section.course_id = courseId
                                   /\ section.semester = semester))

\* scheduling-conflicts.js: rows are matched on dept code + crs num and sem.
calculateCourseRaritySC(courseId, sectionData, semester) ==
    Len(SelectSeq(sectionData,
                  LAMBDA section : section.dept_code \o section.crs_num = courseId
                                   /\ section.sem = semester))

\* isUpperLevel: NaN >= 300 is false.
UpperLevelMin == 300

isUpperLevel(courseNumber) == ParseInt(courseNumber) >= UpperLevelMin

---------------------------------------------------------------------------
(* Conflict scorer                                                         *)

SeniorWeight2 == 4

JuniorWeight2 == 3

OtherWeight2 == 2

ScaleDivisor == 10

\* courseA.students.filter(a => courseB.students.some(b => a.id === b.id))
OverlappingStudents(courseA, courseB) ==
    SelectSeq(courseA.students,
              LAMBDA studentA : \E j \in 1..Len(courseB.students) :
                                   courseB.students[j].id = studentA.id)

\* The seniority weight with the Junior branch lost: Juniors weigh 1.0.
SeniorityWeightNoJunior(student, semester) ==
    IF getStudentYear(student, semester) = "Senior" THEN SeniorWeight2
    ELSE OtherWeight2

\* The switch over studentYear: the seniority weight, doubled.
WeightOfYear(studentYear) ==
    IF studentYear = "Senior" THEN SeniorWeight2
    ELSE IF studentYear = "Junior" THEN JuniorWeight2
    ELSE OtherWeight2

\* The seniority weight of one overlapping student, doubled.
SeniorityWeight2(student, semester) == WeightOfYear(getStudentYear(student, semester))

RECURSIVE SumWeights2(_, _)
SumWeights2(studs, semester) ==
    IF studs = <<>> THEN 0
    ELSE SeniorityWeight2(Head(studs), semester) + SumWeights2(Tail(studs), semester)

\* The inputs (overlap, doubled weight sum, section counts in either order)
\* for which the exact value of normalizedScore * 100 lies halfway between two
\* integers and its IEEE-754 double evaluation in the code's order of
\* operations lands below the half, so that Math.round goes down. Complete
\* for overlap <= 7 and section counts <= 6.
DoubleTieDown ==
    { <<4, 9, 2, 3>>, <<4, 15, 2, 3>>, <<5, 15, 2, 3>>, <<7, 15, 2, 3>>,
      <<1, 3, 2, 5>>, <<2, 7, 2, 5>>, <<3, 7, 2, 5>>, <<3, 9, 2, 5>>,
      <<3, 11, 2, 5>>, <<4, 11, 2, 5>>, <<4, 13, 2, 5>>, <<5, 13, 2, 5>>,
      <<5, 19, 2, 5>>, <<6, 13, 2, 5>>, <<6, 15, 2, 5>>, <<6, 19, 2, 5>>,
      <<6, 21, 2, 5>>, <<7, 15, 2, 5>>, <<7, 19, 2, 5>>, <<5, 18, 3, 4>>,
      <<6, 18, 3, 4>>, <<6, 23, 3, 6>>, <<7, 23, 3, 6>>, <<6, 23, 4, 4>>,
      <<7, 23, 4, 4>>, <<5, 18, 4, 6>> }

Min(a, b) == IF a <= b THEN a ELSE b

Max(a, b) == IF a >= b THEN a ELSE b

\* Math.round(x * 100) for the exact rational x = num / den >= 0: the
\* nearest integer, a half going up.
RoundHundredths(num, den) == (200 * num + den) \div (2 * den)

\* The arithmetic without Math.min(..., 1.0): the score is not capped.
ScoreUncapped(overlap, weights2, numSectionsA, numSectionsB) ==
    LET rarityDenA == IF numSectionsA > 0 THEN numSectionsA ELSE 1
        rarityDenB == IF numSectionsB > 0 THEN numSectionsB ELSE 1
    IN  RoundHundredths(overlap * (rarityDenA + rarityDenB) * weights2,
                        ScaleDivisor * rarityDenA * rarityDenB * 2 * overlap)

\* The arithmetic of calculateConflictLevel for overlap > 0: the score in
\* hundredths from the overlap, the doubled sum of the seniority weights and
\* the two section counts.
NormalizedScore(overlap, weights2, numSectionsA, numSectionsB) ==
    LET \* rarityWeight = 1 / numSections, as numerator 1 over a denominator
        rarityDenA == IF numSectionsA > 0 THEN numSectionsA ELSE 1
        rarityDenB == IF numSectionsB > 0 THEN numSectionsB ELSE 1
        \* avgSeniorityWeight = (weights2 / 2) / overlap
        \* conflictScore = overlap * (1/denA + 1/denB) * avgSeniorityWeight
        scoreNum == overlap * (rarityDenA + rarityDenB) * weights2
        scoreDen == rarityDenA * rarityDenB * 2 * overlap
        \* normalizedScore = min(conflictScore / ScaleDivisor, 1.0)
        capped == scoreNum >= ScaleDivisor * scoreDen
        rounded == IF capped THEN RoundHundredths(1, 1)
                   ELSE RoundHundredths(scoreNum, ScaleDivisor * scoreDen)
        tieDown == <<overlap, weights2, Min(numSectionsA, numSectionsB),
                     Max(numSectionsA, numSectionsB)>> \in DoubleTieDown
    IN  IF tieDown THEN rounded - 1 ELSE rounded

\* The early return for overlap = 0, then the arithmetic.
ScoreOfOverlap(overlap, weights2, numSectionsA, numSectionsB) ==
    IF overlap = 0 THEN 0
    ELSE NormalizedScore(overlap, weights2, numSectionsA, numSectionsB)

\* The body of calculateConflictLevel once the two section counts are known.
\* The score is returned in hundredths.
ConflictLevelOf(courseA, courseB, numSectionsA, numSectionsB, semester) ==
    ScoreOfOverlap(Len(OverlappingStudents(courseA, courseB)),
                   SumWeights2(OverlappingStudents(courseA, courseB), semester),
                   numSectionsA, numSectionsB)

\* conflict-matrix.js
calculateConflictLevel(courseA, courseB, sectionData, semester) ==
    ConflictLevelOf(courseA, courseB,
                    calculateCourseRarity(courseA.course_id, sectionData, semester),
                    calculateCourseRarity(courseB.course_id, sectionData, semester),
                    semester)

\* scheduling-conflicts.js
calculateConflictLevelSC(courseA, courseB, sectionData, semester) ==
    ConflictLevelOf(courseA, courseB,
                    calculateCourseRaritySC(courseA.course_id, sectionData, semester),
                    calculateCourseRaritySC(courseB.course_id, sectionData, semester),
                    semester)

\* Math.round(conflictLevel * 100) / 100 of a score kept in hundredths.
Round2(level) == RoundHundredths(level, 100)

RarityImpact(rarityA, rarityB, numberA, numberB) ==
    IF rarityA = 1 /\ rarityB = 1 THEN "Both are single-section upper-level"
    ELSE IF rarityA = 1 \/ rarityB = 1 THEN "One is single-section upper-level"
    ELSE IF isUpperLevel(numberA) /\ isUpperLevel(numberB)
         THEN "Both are upper-level courses"
    ELSE "Standard course availability"

---------------------------------------------------------------------------
(* Graduating seniors and the descriptive texts                            *)
(* A text built by a template literal is the sequence of its pieces: the   *)
(* digits of an interpolated number and the literal chunks around it.      *)

\* The test of calculateSeniorityImpact in scheduling-conflicts.js for one
\* overlapping student, once the target token is taken apart.
CountsAsGraduating(student, semesterYear, semesterType, targetSemester) ==
    IF semesterYear # NaN /\ student.gradYear = semesterYear
    THEN \/ semesterType = Sp /\ StartsWith(student.expectedGraduation, Fa)
         \/ semesterType = Fa /\ StartsWith(student.expectedGraduation, Sp)
    ELSE student.expectedGraduation = targetSemester

\* scheduling-conflicts.js
calculateSeniorityImpactSC(studs, targetSemester) ==
    Len(SelectSeq(studs,
                  LAMBDA student :
                      CountsAsGraduating(student,
                                         ParseInt(SliceLast4(targetSemester)),
                                         SliceFirst2(targetSemester),
                                         targetSemester)))

\* conflict-matrix.js: currentYear is new Date().getFullYear() at the time
\* of the request; targetSemester is not read.
calculateSeniorityImpact(studs, targetSemester, currentYear) ==
    Len(SelectSeq(studs, LAMBDA student : student.gradYear <= currentYear + 1))

\* ${n > 1 ? 's' : ''}
Plural(n) == IF n > 1 THEN <<"s">> ELSE <<>>

\* seniorityText of generateExplanation: empty without graduating seniors.
SeniorityText(seniorCount) ==
    IF seniorCount > 0
    THEN ToDigits(seniorCount) \o <<" graduating senior">> \o Plural(seniorCount)
         \o <<" affected">>
    ELSE <<>>

\* The seniorityImpact field of a conflict record.
SeniorityImpactText(seniorCount) ==
    IF seniorCount > 0 THEN SeniorityText(seniorCount)
    ELSE <<"No graduating seniors affected">>

OverlapText(overlap) ==
    ToDigits(overlap) \o <<" student">> \o Plural(overlap) \o <<" plan">>
    \o (IF overlap = 1 THEN <<"s">> ELSE <<>>) \o <<" to take both">>

RarityText(rarityA, rarityB) ==
    IF rarityA = 1 /\ rarityB = 1 THEN <<"both are single-section">>
    ELSE IF rarityA = 1 \/ rarityB = 1 THEN <<"one is single-section">>
    ELSE <<>>

LevelText(numberA, numberB) ==
    IF isUpperLevel(numberA) /\ isUpperLevel(numberB) THEN <<"upper-level">>
    ELSE IF isUpperLevel(numberA) \/ isUpperLevel(numberB) THEN <<"mixed-level">>
    ELSE <<>>

\* The second part of the explanation: the rarity and level phrase.
CoursesText(rarityText, levelText) ==
    IF rarityText # <<>> /\ levelText # <<>>
    THEN rarityText \o <<" ">> \o levelText \o <<" courses">>
    ELSE IF rarityText # <<>> THEN rarityText \o <<" courses">>
    ELSE IF levelText # <<>> THEN levelText \o <<" courses">>
    ELSE <<>>

\* parts.join('; ')
RECURSIVE JoinParts(_)
JoinParts(parts) ==
    IF parts = <<>> THEN <<>>
    ELSE IF Len(parts) = 1 THEN Head(parts)
    ELSE Head(parts) \o <<"; ">> \o JoinParts(Tail(parts))

\* generateExplanation once the section counts and the graduating senior
\* count are known: the non-empty parts joined, with a final full stop.
ExplanationText(overlap, rarityA, rarityB, numberA, numberB, seniorCount) ==
    JoinParts(SelectSeq(<<OverlapText(overlap),
                          CoursesText(RarityText(rarityA, rarityB),
                                      LevelText(numberA, numberB)),
                          SeniorityText(seniorCount)>>,
                        LAMBDA part : part # <<>>))
    \o <<".">>

---------------------------------------------------------------------------
(* Conflicts-only report (scheduling-conflicts.js)                         *)

CourseCode(course) == course.department \o course.number

\* The (i, j) of the nested loops, i < j, in loop order.
RECURSIVE PairsFrom(_, _, _)
PairsFrom(i, j, n) ==
    IF i > n THEN <<>>
    ELSE IF j > n THEN PairsFrom(i + 1, i + 2, n)
    ELSE <<(<<i, j>>)>> \o PairsFrom(i, j + 1, n)

\* The nested loops with j started at 0 instead of i + 1: every (i, j), i # j.
AllOrderedPairs(n) ==
    PairsFrom(1, 2, n) \o [k \in 1..Len(PairsFrom(1, 2, n)) |->
                              <<PairsFrom(1, 2, n)[k][2], PairsFrom(1, 2, n)[k][1]>>]

LoopPairs(n) == PairsFrom(1, 2, n)

\* Array.prototype.sort((a, b) => b.conflictLevel - a.conflictLevel): a
\* stable sort, highest level first.
\* An insertion that puts a record before the records of equal level.
RECURSIVE InsertBeforeEqual(_, _)
InsertBeforeEqual(sorted, rec) ==
    IF sorted = <<>> THEN <<rec>>
    ELSE IF rec.conflictLevel - Head(sorted).conflictLevel >= 0
         THEN <<rec>> \o sorted
         ELSE <<Head(sorted)>> \o InsertBeforeEqual(Tail(sorted), rec)

RECURSIVE InsertByLevel(_, _)
InsertByLevel(sorted, rec) ==
    IF sorted = <<>> THEN <<rec>>
    ELSE IF rec.conflictLevel - Head(sorted).conflictLevel > 0
         THEN <<rec>> \o sorted
         ELSE <<Head(sorted)>> \o InsertByLevel(Tail(sorted), rec)

RECURSIVE SortByLevel(_, _)
SortByLevel(sorted, rest) ==
    IF rest = <<>> THEN sorted
    ELSE SortByLevel(InsertByLevel(sorted, Head(rest)), Tail(rest))

\* The record pushed for a pair.
ConflictRecord(courseA, courseB, overlap, rarityA, rarityB, conflictLevel, seniorCount) ==
    [courseA |-> CourseCode(courseA),
     courseB |-> CourseCode(courseB),
     overlap |-> overlap,
     rarityImpact |-> RarityImpact(rarityA, rarityB, courseA.number, courseB.number),
     seniorityImpact |-> SeniorityImpactText(seniorCount),
     conflictLevel |-> Round2(conflictLevel),
     explanation |-> ExplanationText(overlap, rarityA, rarityB, courseA.number,
                                     courseB.number, seniorCount)]

\* if (overlap > 0) conflicts.push(rec), before the records of the later pairs.
PushIfOverlap(rec, rest) == IF rec.overlap > 0 THEN <<rec>> \o rest ELSE rest

\* The body of the pair loop of analyzeSchedulingConflicts for one pair.
PairRecordSC(courseA, courseB, sectionData, semester) ==
    ConflictRecord(courseA, courseB,
                   Len(OverlappingStudents(courseA, courseB)),
                   calculateCourseRaritySC(courseA.course_id, sectionData, semester),
                   calculateCourseRaritySC(courseB.course_id, sectionData, semester),
                   calculateConflictLevelSC(courseA, courseB, sectionData, semester),
                   calculateSeniorityImpactSC(OverlappingStudents(courseA, courseB),
                                              semester))

\* The pair loop of analyzeSchedulingConflicts.
RECURSIVE CollectConflictsSC(_, _, _, _)
CollectConflictsSC(courses, pairs, sectionData, semester) ==
    IF pairs = <<>> THEN <<>>
    ELSE PushIfOverlap(
             PairRecordSC(courses[Head(pairs)[1]], courses[Head(pairs)[2]],
                          sectionData, semester),
             CollectConflictsSC(courses, Tail(pairs), sectionData, semester))

\* analyzeSchedulingConflicts from the aggregated enrollments on.
AnalyzeCourses(courses, sectionData, semester) ==
    [semester |-> semester,
     conflicts |-> SortByLevel(<<>>, CollectConflictsSC(courses, LoopPairs(Len(courses)),
                                                         sectionData, semester))]

analyzeSchedulingConflicts(studs, sectionData, semester) ==
    AnalyzeCourses(getCoursesForSemester(studs, semester), sectionData, semester)

\* The report carries no message field.
NoMessage == ""

NoConflictsMessage == "No significant conflicts detected."

\* The answer without the test for an empty list: never a message.
ConflictsResponseNoMessage(result) ==
    [status |-> 200,
     semester |-> result.semester,
     conflicts |-> result.conflicts,
     message |-> NoMessage]

\* The handler's answer to a result of analyzeSchedulingConflicts.
ConflictsResponse(result) ==
    [status |-> 200,
     semester |-> result.semester,
     conflicts |-> result.conflicts,
     message |-> IF Len(result.conflicts) = 0 THEN NoConflictsMessage ELSE NoMessage]

\* GET /api/scheduling-conflicts?semester=...
SchedulingConflictsHandler(studs, sectionData, semester) ==
    IF semester = <<>>
    THEN [status |-> 400, error |-> "Semester parameter is required"]
    ELSE ConflictsResponse(analyzeSchedulingConflicts(studs, sectionData, semester))

---------------------------------------------------------------------------
(* Matrix report (conflict-matrix.js)                                      *)

\* Whether /(fa|sp)(\d{4})/ matches s at position i.
MatchesAt(s, i) ==
    /\ i + 5 <= Len(s)
    /\ SubSeq(s, i, i + 1) \in {Fa, Sp}
    /\ \A k \in (i + 2)..(i + 5) : IsDigit(s[k])

\* semester.match(/(fa|sp)(\d{4})/): the leftmost match, or no match.
SemesterMatch(s) ==
    IF \E i \in 1..Len(s) : MatchesAt(s, i)
    THEN LET i == CHOOSE i \in 1..Len(s) :
                      MatchesAt(s, i) /\ \A k \in 1..(i - 1) : ~MatchesAt(s, k)
         IN  [matched |-> TRUE, semesterType |-> SubSeq(s, i, i + 1),
              yearStr |-> SubSeq(s, i + 2, i + 5)]
    ELSE [matched |-> FALSE, semesterType |-> <<>>, yearStr |-> <<>>]

\* Whether year % 2 === 1.
isOddYear(year) == year % 2 = 1

\* Whether year % 2 === 0.
isEvenYear(year) == year % 2 = 0

Letters == <<"A", "B", "C", "D", "E", "F", "G", "H", "I", "J", "K", "L", "M",
             "N", "O", "P", "Q", "R", "S", "T", "U", "V", "W", "X", "Y", "Z">>

LetterRank(ch) ==
    IF \E i \in 1..Len(Letters) : Letters[i] = ch
    THEN CHOOSE i \in 1..Len(Letters) : Letters[i] = ch
    ELSE 0

\* a.localeCompare(b) for department codes written in upper-case letters:
\* negative, zero or positive.
RECURSIVE LocaleCompare(_, _)
LocaleCompare(a, b) ==
    IF a = <<>> /\ b = <<>> THEN 0
    ELSE IF a = <<>> THEN 0 - 1
    ELSE IF b = <<>> THEN 1
    ELSE IF Head(a) = Head(b) THEN LocaleCompare(Tail(a), Tail(b))
    ELSE LetterRank(Head(a)) - LetterRank(Head(b))

\* The comparator of courseList.sort; NaN (a number that does not parse)
\* makes the difference NaN, which sort treats as 0.
CompareCourses(a, b) ==
    IF a.department # b.department
    THEN LocaleCompare(a.department, b.department)
    ELSE IF ParseInt(a.number) = NaN \/ ParseInt(b.number) = NaN THEN 0
    ELSE ParseInt(a.number) - ParseInt(b.number)

RECURSIVE InsertCourse(_, _)
InsertCourse(sorted, c) ==
    IF sorted = <<>> THEN <<c>>
    ELSE IF CompareCourses(c, Head(sorted)) < 0 THEN <<c>> \o sorted
    ELSE <<Head(sorted)>> \o InsertCourse(Tail(sorted), c)

RECURSIVE SortCourses(_, _)
SortCourses(sorted, rest) ==
    IF rest = <<>> THEN sorted
    ELSE SortCourses(InsertCourse(sorted, Head(rest)), Tail(rest))

CourseListEntry(course) ==
    [id |-> course.course_id, code |-> CourseCode(course),
     department |-> course.department, number |-> course.number]

\* The body of the first pair loop of generateConflictMatrix for one pair.
PairRecord(courseA, courseB, sectionData, semester, currentYear) ==
    ConflictRecord(courseA, courseB,
                   Len(OverlappingStudents(courseA, courseB)),
                   calculateCourseRarity(courseA.course_id, sectionData, semester),
                   calculateCourseRarity(courseB.course_id, sectionData, semester),
                   calculateConflictLevel(courseA, courseB, sectionData, semester),
                   calculateSeniorityImpact(OverlappingStudents(courseA, courseB),
                                            semester, currentYear))

\* The first pair loop without its overlap test: a record for every pair.
RECURSIVE CollectAllPairs(_, _, _, _, _)
CollectAllPairs(offeredCourses, pairs, sectionData, semester, currentYear) ==
    IF pairs = <<>> THEN <<>>
    ELSE <<PairRecord(offeredCourses[Head(pairs)[1]], offeredCourses[Head(pairs)[2]],
                      sectionData, semester, currentYear)>>
         \o CollectAllPairs(offeredCourses, Tail(pairs), sectionData, semester,
                            currentYear)

\* The first pair loop of generateConflictMatrix.
RECURSIVE CollectConflicts(_, _, _, _, _)
CollectConflicts(offeredCourses, pairs, sectionData, semester, currentYear) ==
    IF pairs = <<>> THEN <<>>
    ELSE PushIfOverlap(
             PairRecord(offeredCourses[Head(pairs)[1]], offeredCourses[Head(pairs)[2]],
                        sectionData, semester, currentYear),
             CollectConflicts(offeredCourses, Tail(pairs), sectionData, semester,
                              currentYear))

\* offeredCourses.find(c => c.course_id === id)
FindCourse(offeredCourses, id) ==
    offeredCourses[CHOOSE k \in 1..Len(offeredCourses) :
                       /\ offeredCourses[k].course_id = id
                       /\ \A m \in 1..(k - 1) : offeredCourses[m].course_id # id]

\* The cell of two different courses: the rounded score when they overlap.
CellOf(courseA, courseB, sectionData, semester) ==
    IF Len(OverlappingStudents(courseA, courseB)) > 0
    THEN Round2(calculateConflictLevel(courseA, courseB, sectionData, semester))
    ELSE 0

\* One cell of the matrix, rows and columns in courseList order.
MatrixCell(offeredCourses, courseList, i, j, sectionData, semester) ==
    IF i = j THEN 0
    ELSE CellOf(FindCourse(offeredCourses, courseList[i].id),
                FindCourse(offeredCourses, courseList[j].id),
                sectionData, semester)

\* The second loop and the return value of generateConflictMatrix.
MatrixReport(courseEnrollments, offeredCourses, courseList, sectionData, semester, currentYear) ==
    [semester |-> semester,
     courses |-> courseList,
     matrix |-> [i \in 1..Len(courseList) |->
                    [j \in 1..Len(courseList) |->
                        MatrixCell(offeredCourses, courseList, i, j,
                                   sectionData, semester)]],
     conflicts |-> SortByLevel(<<>>, CollectConflicts(offeredCourses,
                                                      LoopPairs(Len(offeredCourses)),
                                                      sectionData, semester,
                                                      currentYear)),
     totalOffered |-> Len(courseList),
     totalPlanned |-> Len(courseEnrollments)]

\* offeredCourses.map(...) followed by courseList.sort(...)
CourseListOf(offeredCourses) ==
    SortCourses(<<>>, [k \in 1..Len(offeredCourses) |->
                           CourseListEntry(offeredCourses[k])])

\* generateConflictMatrix from the filtered enrollments on.
ReportOfOffered(courseEnrollments, offeredCourses, sectionData, semester, currentYear) ==
    MatrixReport(courseEnrollments, offeredCourses, CourseListOf(offeredCourses),
                 sectionData, semester, currentYear)

\* The filter that lets every planned course through.
FilterNone(courseEnrollments, offered) == courseEnrollments

\* Object.values(courseEnrollments).filter(course => isCourseOffered(...)),
\* with the server-side isCourseOffered of utils/courseOffering.js: offered
\* is the set of course ids it answers true for in the requested semester.
FilterOffered(courseEnrollments, offered) ==
    SelectSeq(courseEnrollments, LAMBDA course : course.course_id \in offered)

\* generateConflictMatrix from the aggregated enrollments on, once the
\* semester token has matched.
ReportOfEnrollments(courseEnrollments, sectionData, offered, semester, currentYear) ==
    ReportOfOffered(courseEnrollments, FilterOffered(courseEnrollments, offered),
                    sectionData, semester, currentYear)

generateConflictMatrix(studs, sectionData, offered, semester, currentYear) ==
    ReportOfEnrollments(getCoursesForSemester(studs, semester), sectionData,
                        offered, semester, currentYear)

\* GET /api/conflict-matrix?semester=... served in the calendar year
\* currentYear.
ConflictMatrixHandler(studs, sectionData, offered, semester, currentYear) ==
    IF semester = <<>>
    THEN [status |-> 400, error |-> "Semester parameter is required"]
    ELSE IF ~SemesterMatch(semester).matched
    THEN [status |-> 500, error |-> "Failed to generate conflict matrix"]
    ELSE [status |-> 200,
          report |-> generateConflictMatrix(studs, sectionData, offered, semester,
                                            currentYear)]

---------------------------------------------------------------------------
(* Client-side course offering resolver (courseOfferingClient.js)          *)

LowerLetters == <<"a", "b", "c", "d", "e", "f", "g", "h", "i", "j", "k", "l", "m",
                  "n", "o", "p", "q", "r", "s", "t", "u", "v", "w", "x", "y", "z">>

\* s.toLowerCase()
ToLowerCase(s) ==
    [i \in 1..Len(s) |-> IF LetterRank(s[i]) > 0
                         THEN LowerLetters[LetterRank(s[i])] ELSE s[i]]

FallWord == <<"f", "a", "l", "l">>

SpringWord == <<"s", "p", "r", "i", "n", "g">>

\* parseSemester: year, isFall, isSpring of the leftmost match, or null.
parseSemester(semester) ==
    LET match == SemesterMatch(semester)
    IN  IF ~match.matched
        THEN [isNull |-> TRUE, year |-> NaN, isFall |-> FALSE, isSpring |-> FALSE]
        ELSE [isNull |-> FALSE,
              year |-> ParseInt(match.yearStr),
              isFall |-> match.semesterType = Fa,
              isSpring |-> match.semesterType = Sp]

\* isCourseOffered with the two parity tests exchanged.
IsCourseOfferedParitySwapped(offerings, courseId, semester, year) ==
    IF courseId \notin DOMAIN offerings \/ offerings[courseId] = ""
    THEN FALSE
    ELSE LET offeringCode == offerings[courseId]
             semesterShort == IF ToLowerCase(semester) = FallWord THEN Fa
                              ELSE IF ToLowerCase(semester) = SpringWord THEN Sp
                              ELSE ToLowerCase(semester)
             semesterInfo == parseSemester(semesterShort \o ToDigits(year))
         IN  IF semesterInfo.isNull THEN FALSE
             ELSE CASE offeringCode = "e"  -> TRUE
                    [] offeringCode = "ef" -> semesterInfo.isFall
                    [] offeringCode = "es" -> semesterInfo.isSpring
                    [] offeringCode = "fo" ->
                           semesterInfo.isFall /\ isEvenYear(semesterInfo.year)
                    [] offeringCode = "fe" ->
                           semesterInfo.isFall /\ isOddYear(semesterInfo.year)
                    [] offeringCode = "so" ->
                           semesterInfo.isSpring /\ isEvenYear(semesterInfo.year)
                    [] offeringCode = "se" ->
                           semesterInfo.isSpring /\ isOddYear(semesterInfo.year)
                    [] offeringCode = "sp" -> semesterInfo.isSpring
                    [] OTHER -> FALSE

\* isCourseOffered whose default case answers true.
IsCourseOfferedFailOpen(offerings, courseId, semester, year) ==
    IF courseId \notin DOMAIN offerings \/ offerings[courseId] = ""
    THEN FALSE
    ELSE LET offeringCode == offerings[courseId]
             semesterShort == IF ToLowerCase(semester) = FallWord THEN Fa
                              ELSE IF ToLowerCase(semester) = SpringWord THEN Sp
                              ELSE ToLowerCase(semester)
             semesterInfo == parseSemester(semesterShort \o ToDigits(year))
         IN  IF semesterInfo.isNull THEN FALSE
             ELSE CASE offeringCode = "e"  -> TRUE
                    [] offeringCode = "ef" -> semesterInfo.isFall
                    [] offeringCode = "es" -> semesterInfo.isSpring
                    [] offeringCode = "fo" ->
                           semesterInfo.isFall /\ isOddYear(semesterInfo.year)
                    [] offeringCode = "fe" ->
                           semesterInfo.isFall /\ isEvenYear(semesterInfo.year)
                    [] offeringCode = "so" ->
                           semesterInfo.isSpring /\ isOddYear(semesterInfo.year)
                    [] offeringCode = "se" ->
                           semesterInfo.isSpring /\ isEvenYear(semesterInfo.year)
                    [] offeringCode = "sp" -> semesterInfo.isSpring
                    [] OTHER -> TRUE

\* The body of isCourseOffered once loadOfferingData has returned offerings.
IsCourseOfferedWith(offerings, courseId, semester, year) ==
    IF courseId \notin DOMAIN offerings \/ offerings[courseId] = ""
    THEN FALSE
    ELSE LET offeringCode == offerings[courseId]
             semesterShort == IF ToLowerCase(semester) = FallWord THEN Fa
                              ELSE IF ToLowerCase(semester) = SpringWord THEN Sp
                              ELSE ToLowerCase(semester)
             semesterInfo == parseSemester(semesterShort \o ToDigits(year))
         IN  IF semesterInfo.isNull THEN FALSE
             ELSE CASE offeringCode = "e"  -> TRUE
                    [] offeringCode = "ef" -> semesterInfo.isFall
                    [] offeringCode = "es" -> semesterInfo.isSpring
                    [] offeringCode = "fo" ->
                           semesterInfo.isFall /\ isOddYear(semesterInfo.year)
                    [] offeringCode = "fe" ->
                           semesterInfo.isFall /\ isEvenYear(semesterInfo.year)
                    [] offeringCode = "so" ->
                           semesterInfo.isSpring /\ isOddYear(semesterInfo.year)
                    [] offeringCode = "se" ->
                           semesterInfo.isSpring /\ isEvenYear(semesterInfo.year)
                    [] offeringCode = "sp" -> semesterInfo.isSpring
                    [] OTHER -> FALSE

\* `Next available: ${season} ${year}.` after the sentence of the pattern.
NextAvailable(sentence, year) == <<sentence>> \o ToDigits(year) \o <<".">>

OddFallSentence == "Offered in Fall semesters of odd years. Next available: Fall "

EvenFallSentence == "Offered in Fall semesters of even years. Next available: Fall "

OddSpringSentence == "Offered in Spring semesters of odd years. Next available: Spring "

EvenSpringSentence == "Offered in Spring semesters of even years. Next available: Spring "

\* getOfferingSuggestions whose spring patterns start from the current year
\* instead of the next one.
SuggestionsFromCurrentYear(courseId, offeringCode, currentYear) ==
    CASE offeringCode = "e"  -> <<"Available every semester.">>
      [] offeringCode = "ef" -> <<"Only offered in Fall semesters.">>
      [] offeringCode = "es" -> <<"Only offered in Spring semesters.">>
      [] offeringCode = "sp" -> <<"Only offered in Spring semesters.">>
      [] offeringCode = "fo" ->
             NextAvailable(OddFallSentence,
                           IF isOddYear(currentYear) THEN currentYear
                           ELSE currentYear + 1)
      [] offeringCode = "fe" ->
             NextAvailable(EvenFallSentence,
                           IF isEvenYear(currentYear) THEN currentYear
                           ELSE currentYear + 1)
      [] offeringCode = "so" ->
             NextAvailable(OddSpringSentence,
                           IF isOddYear(currentYear) THEN currentYear
                           ELSE currentYear + 1)
      [] offeringCode = "se" ->
             NextAvailable(EvenSpringSentence,
                           IF isEvenYear(currentYear) THEN currentYear
                           ELSE currentYear + 1)
      [] OTHER -> <<"Check course catalog for availability.">>

getOfferingSuggestions(courseId, offeringCode, currentYear) ==
    CASE offeringCode = "e"  -> <<"Available every semester.">>
      [] offeringCode = "ef" -> <<"Only offered in Fall semesters.">>
      [] offeringCode = "es" -> <<"Only offered in Spring semesters.">>
      [] offeringCode = "sp" -> <<"Only offered in Spring semesters.">>
      [] offeringCode = "fo" ->
             NextAvailable(OddFallSentence,
                           IF isOddYear(currentYear) THEN currentYear
                           ELSE currentYear + 1)
      [] offeringCode = "fe" ->
             NextAvailable(EvenFallSentence,
                           IF isEvenYear(currentYear) THEN currentYear
                           ELSE currentYear + 1)
      [] offeringCode = "so" ->
             NextAvailable(OddSpringSentence,
                           IF isOddYear(currentYear + 1) THEN currentYear + 1
                           ELSE currentYear + 2)
      [] offeringCode = "se" ->
             NextAvailable(EvenSpringSentence,
                           IF isEvenYear(currentYear + 1) THEN currentYear + 1
                           ELSE currentYear + 2)
      [] OTHER -> <<"Check course catalog for availability.">>

\* offerings[courseId], "" when it is undefined or empty (falsy either way).
OfferingCodeOf(offerings, courseId) ==
    IF courseId \in DOMAIN offerings THEN offerings[courseId] ELSE ""

AvailableMessage == <<"Course is available for this semester">>

NotFoundMessage == <<"Course offering information not found">>

\* `Course is not offered in ${semester} ${year}. ${suggestions}`
NotOfferedMessage(semester, year, suggestions) ==
    <<"Course is not offered in ">> \o semester \o <<" ">> \o ToDigits(year)
    \o <<". ">> \o suggestions

ValidResult == [valid |-> TRUE, message |-> AvailableMessage]

\* The invalid result without the test for a missing offering code.
InvalidResultUnchecked(offerings, courseId, semester, year) ==
    [valid |-> FALSE,
     message |-> NotOfferedMessage(
                     semester, year,
                     getOfferingSuggestions(courseId,
                                            OfferingCodeOf(offerings, courseId),
                                            year))]

\* The rest of validateCourseSelection when isCourseOffered answered false,
\* once loadOfferingData has returned offerings for the second time.
InvalidResult(offerings, courseId, semester, year) ==
    IF OfferingCodeOf(offerings, courseId) = ""
    THEN [valid |-> FALSE, message |-> NotFoundMessage]
    ELSE [valid |-> FALSE,
          message |-> NotOfferedMessage(
                          semester, year,
                          getOfferingSuggestions(courseId,
                                                 OfferingCodeOf(offerings, courseId),
                                                 year))]

\* getOfferingDescription(courseId) on the loaded table.
getOfferingDescription(offerings, courseId) ==
    LET offeringCode == OfferingCodeOf(offerings, courseId)
    IN  IF offeringCode = "" THEN "Offering information not available"
        ELSE IF offeringCode = "e" THEN "Every semester"
        ELSE IF offeringCode = "ef" THEN "Every fall semester"
        ELSE IF offeringCode = "es" THEN "Every spring semester"
        ELSE IF offeringCode = "sp" THEN "Every spring semester"
        ELSE IF offeringCode = "fo" THEN "Odd-numbered fall semesters"
        ELSE IF offeringCode = "fe" THEN "Even-numbered fall semesters"
        ELSE IF offeringCode = "so" THEN "Odd-numbered spring semesters"
        ELSE IF offeringCode = "se" THEN "Even-numbered spring semesters"
        ELSE "Unknown offering pattern"

---------------------------------------------------------------------------
(* Plan store (addCourse and removeCourse)                                 *)
(* students.json is a sequence of student records; a student's plan is the *)
(* sequence of its semesters in the key order of the JSON object, each     *)
(* with its courses, semesterCredits and semesterStatus. The fields the    *)
(* two handlers never read or write (name, email, gradYear,                *)
(* expectedGraduation) are left out. A request field that is absent is the *)
(* empty string; credits is a JSON number or a JSON string.                *)

\* The date of new Date(): getFullYear() and getMonth() + 1.
Clock(year, month) == [year |-> year, month |-> month]

LastSpringMonth == 5

FirstFallMonth == 8

getSemesterStatus(semester, clock) ==
    LET semesterMatch == SemesterMatch(semester)
        year == ParseInt(semesterMatch.yearStr)
    IN  IF ~semesterMatch.matched THEN "unknown"
        ELSE IF year < clock.year THEN "past"
        ELSE IF year > clock.year THEN "future"
        ELSE IF semesterMatch.semesterType = Sp
             THEN (IF clock.month <= LastSpringMonth THEN "current" ELSE "past")
             ELSE (IF clock.month >= FirstFallMonth THEN "current" ELSE "future")

\* The position of the key `semester` in plan, 0 when plan[semester] is
\* undefined.
SemesterIndex(plan, semester) ==
    IF \E i \in 1..Len(plan) : plan[i].semester = semester
    THEN CHOOSE i \in 1..Len(plan) : plan[i].semester = semester
    ELSE 0

\* studentsData.findIndex((s) => s.id === studentId), 0 for -1.
StudentIndex(studentsData, studentId) ==
    IF \E k \in 1..Len(studentsData) : studentsData[k].id = studentId
    THEN CHOOSE k \in 1..Len(studentsData) :
             /\ studentsData[k].id = studentId
             /\ \A m \in 1..(k - 1) : studentsData[m].id # studentId
    ELSE 0

\* courses.findIndex((c) => c.course_id === courseId), 0 for -1.
CourseIndex(courses, courseId) ==
    IF \E i \in 1..Len(courses) : courses[i].course_id = courseId
    THEN CHOOSE i \in 1..Len(courses) :
             /\ courses[i].course_id = courseId
             /\ \A m \in 1..(i - 1) : courses[m].course_id # courseId
    ELSE 0

\* courses.reduce((sum, c) => sum + c.credits, 0)
RECURSIVE SumCredits(_)
SumCredits(courses) ==
    IF courses = <<>> THEN 0 ELSE Head(courses).credits + SumCredits(Tail(courses))

\* The courses of every semester of the plan, in the order of
\* Object.values(student.plan).forEach(... courses.forEach(...)).
RECURSIVE AllCourses(_)
AllCourses(plan) ==
    IF plan = <<>> THEN <<>> ELSE Head(plan).courses \o AllCourses(Tail(plan))

TakenOnly(courses) == SelectSeq(courses, LAMBDA c : c.status = "taken")

NotTaken(courses) == SelectSeq(courses, LAMBDA c : c.status # "taken")

\* The totals left as they were read from the file.
KeepTotals(student) == student

\* The student with its three totals recomputed from the plan.
RecalculateTotals(student) ==
    [student EXCEPT
        !.totalCredits = SumCredits(AllCourses(student.plan)),
        !.completedCredits = SumCredits(TakenOnly(AllCourses(student.plan))),
        !.plannedCredits = SumCredits(NotTaken(AllCourses(student.plan)))]

\* !value for the credits of a request: 0 and the empty string are falsy.
IsFalsyCredits(credits) ==
    IF credits.isString THEN credits.text = <<>> ELSE credits.number = 0

\* parseInt(course.credits)
ParseCredits(credits) ==
    IF credits.isString THEN ParseInt(credits.text) ELSE credits.number

\* A handler that writes the array it holds on every return.
AnswerWritten(status, message, studentsData, file) ==
    [status |-> status, message |-> message, studentsData |-> studentsData,
     file |-> studentsData]

\* What a handler has done when it returns: the response, the array it
\* parsed from the file (studentsData, with the changes made in memory) and
\* the content of the file (changed only by writeFileSync).
Answer(status, message, studentsData, file) ==
    [status |-> status, message |-> message, studentsData |-> studentsData,
     file |-> file]

\* res.status(200).json(student) after writeFileSync(studentsData).
Saved(studentsData, studentIndex) ==
    [status |-> 200, message |-> "", studentsData |-> studentsData,
     file |-> studentsData, student |-> studentsData[studentIndex]]

NewSemester(semester, clock) ==
    [semester |-> semester, courses |-> <<>>, semesterCredits |-> 0,
     semesterStatus |-> getSemesterStatus(semester, clock)]

\* student.plan after `if (!student.plan[semester]) student.plan[semester] =
\* {...}`: a new key goes after the keys the object has.
InitializedPlan(plan, semester, clock) ==
    IF SemesterIndex(plan, semester) = 0
    THEN Append(plan, NewSemester(semester, clock))
    ELSE plan

NewCourse(course) ==
    [course_id |-> course.course_id,
     department |-> course.department,
     number |-> course.number,
     title |-> course.title,
     credits |-> ParseCredits(course.credits),
     status |-> IF course.status = "" THEN "planned" ELSE course.status]

\* The semester with newCourse pushed and its semesterCredits recomputed.
WithPushed(semesterData, newCourse) ==
    [semesterData EXCEPT
        !.courses = Append(semesterData.courses, newCourse),
        !.semesterCredits = SumCredits(Append(semesterData.courses, newCourse))]

\* The same steps without the duplicate check: the course is pushed although
\* the semester has it.
PushedUnchecked(studentsData, k, plan, s, course, validation, isFuture, matched) ==
    IF isFuture /\ matched /\ ~validation.valid
    THEN Answer(400, validation.message,
                [studentsData EXCEPT ![k].plan = plan], studentsData)
    ELSE Saved([studentsData EXCEPT
                   ![k] = RecalculateTotals(
                              [studentsData[k] EXCEPT
                                  !.plan = [plan EXCEPT
                                               ![s] = WithPushed(plan[s],
                                                                 NewCourse(course))]])],
               k)

\* addCourse from the duplicate check to the response, for student k whose
\* plan, with the semester initialized at position s, is `plan`.
PushedChecked(studentsData, k, plan, s, course, validation, isFuture, matched) ==
    IF CourseIndex(plan[s].courses, course.course_id) # 0
    THEN Answer(400, "Course already exists in this semester",
                [studentsData EXCEPT ![k].plan = plan], studentsData)
    ELSE IF isFuture /\ matched /\ ~validation.valid
    THEN Answer(400, validation.message,
                [studentsData EXCEPT ![k].plan = plan], studentsData)
    ELSE Saved([studentsData EXCEPT
                   ![k] = RecalculateTotals(
                              [studentsData[k] EXCEPT
                                  !.plan = [plan EXCEPT
                                               ![s] = WithPushed(plan[s],
                                                                 NewCourse(course))]])],
               k)

AddToStudent(studentsData, k, body, clock, validation) ==
    PushedChecked(studentsData, k,
                  InitializedPlan(studentsData[k].plan, body.semester, clock),
                  SemesterIndex(InitializedPlan(studentsData[k].plan,
                                                body.semester, clock),
                                body.semester),
                  body.course, validation,
                  getSemesterStatus(body.semester, clock) = "future",
                  SemesterMatch(body.semester).matched)

\* POST /api/addCourse. `validation` is what validateCourseSelection of
\* utils/courseOffering.js returns when the handler calls it.
AddCourseHandler(studentsData, method, body, clock, validation) ==
    IF method # "POST"
    THEN Answer(405, "Method not allowed", studentsData, studentsData)
    ELSE IF body.studentId = "" \/ body.semester = <<>> \/ ~body.course.given
    THEN Answer(400, "Missing required fields: studentId, semester, course",
                studentsData, studentsData)
    ELSE IF \/ body.course.course_id = <<>>
            \/ body.course.title = ""
            \/ IsFalsyCredits(body.course.credits)
    THEN Answer(400, "Invalid course object. Required: course_id, title, credits",
                studentsData, studentsData)
    ELSE IF StudentIndex(studentsData, body.studentId) = 0
    THEN Answer(404, "Student not found", studentsData, studentsData)
    ELSE AddToStudent(studentsData, StudentIndex(studentsData, body.studentId),
                      body, clock, validation)

\* courses.splice(courseIndex, 1)
Splice(courses, courseIndex) ==
    SubSeq(courses, 1, courseIndex - 1) \o SubSeq(courses, courseIndex + 1, Len(courses))

\* The removal without `delete student.plan[semester]`: an emptied semester
\* stays in the plan.
PlanWithoutKeepingSemester(plan, s, courseIndex) ==
    [plan EXCEPT
        ![s].courses = Splice(plan[s].courses, courseIndex),
        ![s].semesterCredits = SumCredits(Splice(plan[s].courses, courseIndex))]

\* The plan after the removal: the semester without the course and with its
\* semesterCredits recomputed, or without the semester when that was its
\* last course.
PlanWithout(plan, s, courseIndex) ==
    IF Len(plan[s].courses) = 1
    THEN Splice(plan, s)
    ELSE [plan EXCEPT
             ![s].courses = Splice(plan[s].courses, courseIndex),
             ![s].semesterCredits = SumCredits(Splice(plan[s].courses, courseIndex))]

\* The removable test of the handler: `courseToRemove.status === "taken"`
\* rejects.
IsTaken(courseToRemove) == courseToRemove.status = "taken"

RemoveFromSemester(studentsData, k, s, courseIndex) ==
    IF courseIndex = 0
    THEN Answer(404, "Course not found in this semester", studentsData, studentsData)
    ELSE IF IsTaken(studentsData[k].plan[s].courses[courseIndex])
    THEN Answer(400, "Cannot remove completed courses", studentsData, studentsData)
    ELSE Saved([studentsData EXCEPT
                   ![k] = RecalculateTotals(
                              [studentsData[k] EXCEPT
                                  !.plan = PlanWithout(studentsData[k].plan, s,
                                                       courseIndex)])],
               k)

RemoveFromStudent(studentsData, k, body) ==
    IF SemesterIndex(studentsData[k].plan, body.semester) = 0
    THEN Answer(404, "Semester not found in student plan", studentsData, studentsData)
    ELSE RemoveFromSemester(
             studentsData, k, SemesterIndex(studentsData[k].plan, body.semester),
             CourseIndex(studentsData[k].plan[
                             SemesterIndex(studentsData[k].plan, body.semester)].courses,
                         body.courseId))

\* POST /api/removeCourse
RemoveCourseHandler(studentsData, method, body) ==
    IF method # "POST"
    THEN Answer(405, "Method not allowed", studentsData, studentsData)
    ELSE IF body.studentId = "" \/ body.semester = <<>> \/ body.courseId = <<>>
    THEN Answer(400, "Missing required fields: studentId, semester, courseId",
                studentsData, studentsData)
    ELSE IF StudentIndex(studentsData, body.studentId) = 0
    THEN Answer(404, "Student not found", studentsData, studentsData)
    ELSE RemoveFromStudent(studentsData, StudentIndex(studentsData, body.studentId),
                           body)

---------------------------------------------------------------------------
(* Bounded inputs                                                          *)

MaxStudents == 2

MaxPlanned == 3

MaxMixed == 1

MaxSections == 3

BaseYear == 2024

MaxYearSpan == 5

Cs == <<"C", "S">>

Bio == <<"B", "I", "O">>

Course(department, number) ==
    [course_id |-> department \o ToDigits(number),
     department |-> department, number |-> ToDigits(number)]

CourseA == Course(Cs, 101)

CourseB == Course(Cs, 340)

CourseC == Course(Bio, 210)

TargetSemester == Token(Sp, BaseYear + 2)

OtherSemester == Token(Fa, BaseYear + 2)

StudentIds == <<"S001", "S002", "S003", "S004", "S005", "S006">>

\* A student of the roster file with an empty plan.
Student(k, gradToken) ==
    [id |-> StudentIds[k],
     gradYear |-> ParseInt(SliceLast4(gradToken)),
     expectedGraduation |-> gradToken,
     plan |-> [t \in {} |-> [courses |-> <<>>]]]

\* Student k of the bounded rosters graduates k - 1 years after the spring of
\* the target semester.
BaseStudents ==
    [k \in 1..MaxStudents |-> Student(k, Token(Sp, BaseYear + 1 + k))]

PlanEntry(course, status) ==
    [course_id |-> course.course_id, department |-> course.department,
     number |-> course.number, status |-> status]

\* The roster file with one more entry at the end of a student's semester.
WithEntry(studs, k, semester, entry) ==
    LET plan == studs[k].plan
        courses == IF semester \in DOMAIN plan THEN plan[semester].courses ELSE <<>>
    IN  [studs EXCEPT ![k].plan =
            [t \in DOMAIN plan \cup {semester} |->
                IF t = semester THEN [courses |-> Append(courses, entry)]
                ELSE plan[t]]]

PlannedChoices ==
    { <<TargetSemester, PlanEntry(c, "planned")>> : c \in {CourseA, CourseB, CourseC} }

MixedChoices ==
    PlannedChoices \cup
    { <<TargetSemester, PlanEntry(CourseA, "taken")>>,
      <<TargetSemester, PlanEntry(CourseB, "in_progress")>>,
      <<OtherSemester, PlanEntry(CourseA, "planned")>>,
      <<OtherSemester, PlanEntry(CourseC, "planned")>> }

\* The roster files obtained from base by writing at most n entries.
RECURSIVE FilesWithin(_, _, _)
FilesWithin(base, choices, n) ==
    IF n = 0 THEN {base}
    ELSE LET smaller == FilesWithin(base, choices, n - 1)
         IN  smaller \cup
             { WithEntry(f, k, ch[1], ch[2]) :
                 f \in smaller, k \in 1..Len(base), ch \in choices }

\* A roster of students with the given graduation terms who all plan course
\* A and course B in the target semester.
BothPlanned(grads) ==
    LET both(k) == WithEntry(
                       WithEntry(<<Student(k, grads[k])>>, 1, TargetSemester,
                                 PlanEntry(CourseA, "planned")),
                       1, TargetSemester, PlanEntry(CourseB, "planned"))[1]
    IN  [k \in 1..Len(grads) |-> both(k)]

\* The scenario roster: four students, two graduating in the target spring
\* and two two years later.
ScenarioStudents ==
    BothPlanned(<<Token(Sp, BaseYear + 2), Token(Sp, BaseYear + 2),
                  Token(Sp, BaseYear + 4), Token(Sp, BaseYear + 4)>>)

\* A roster of one Junior and three younger students: with 2 and 3 sections
\* the exact score is 0.375, halfway between two hundredths.
TieStudents ==
    BothPlanned(<<Token(Sp, BaseYear + 3), Token(Sp, BaseYear + 4),
                  Token(Sp, BaseYear + 4), Token(Sp, BaseYear + 5)>>)

\* A roster of one student who graduates two years after the target
\* semester, a Sophomore in it.
YoungStudents == BothPlanned(<<Token(Sp, BaseYear + 4)>>)

\* The students of `base`, each planning course A and course B in the
\* target semester.
RECURSIVE AllPlanBoth(_, _)
AllPlanBoth(base, k) ==
    IF k = 0 THEN base
    ELSE WithEntry(WithEntry(AllPlanBoth(base, k - 1), k, TargetSemester,
                             PlanEntry(CourseA, "planned")),
                   k, TargetSemester, PlanEntry(CourseB, "planned"))

PairStudents == AllPlanBoth(BaseStudents, MaxStudents)

\* The roster files the reports are run on: up to MaxPlanned planned entries
\* written in any order, duplicates included; the roster in which everybody
\* plans A and B, and the empty roster, each with up to MaxMixed further
\* entries of any status and semester; and the two four-student rosters.
StudentFiles ==
    FilesWithin(BaseStudents, PlannedChoices, MaxPlanned)
    \cup FilesWithin(PairStudents, MixedChoices, MaxMixed)
    \cup FilesWithin(BaseStudents, MixedChoices, MaxMixed)
    \cup {ScenarioStudents, TieStudents, YoungStudents}

SectionRow(course, semester) ==
    [course_id |-> course.course_id, semester |-> semester,
     dept_code |-> course.department, crs_num |-> course.number, sem |-> semester]

Rows(course, semester, n) == [i \in 1..n |-> SectionRow(course, semester)]

\* A section file with nA, nB and nC rows of the three courses in the target
\* semester and one row of course A in the other semester.
SectionFile(nA, nB, nC) ==
    Rows(CourseA, TargetSemester, nA) \o Rows(CourseA, OtherSemester, 1)
    \o Rows(CourseB, TargetSemester, nB) \o Rows(CourseC, TargetSemester, nC)

\* What reading a column the file does not have gives.
Undefined == <<"undefined">>

\* A row of a section file whose header is sec id, dept code, crs num,
\* sec num, sem: it has no course_id and no semester column.
CsvSectionRow(course, semester) ==
    [course_id |-> Undefined, semester |-> Undefined,
     dept_code |-> course.department, crs_num |-> course.number, sem |-> semester]

CsvRows(course, semester, n) == [i \in 1..n |-> CsvSectionRow(course, semester)]

\* The section file SectionFile(nA, nB, nC) under that header.
CsvSectionFile(nA, nB, nC) ==
    CsvRows(CourseA, TargetSemester, nA) \o CsvRows(CourseA, OtherSemester, 1)
    \o CsvRows(CourseB, TargetSemester, nB) \o CsvRows(CourseC, TargetSemester, nC)

\* Every pair of section counts of courses A and B; course C has as many
\* sections as course A.
PairSectionFiles ==
    { SectionFile(nA, nB, nA) : nA \in 0..MaxSections, nB \in 0..MaxSections }

\* A section count of a course taught in many sections.
ManySections == 41

ReportSectionFiles ==
    { SectionFile(1, 1, 1), SectionFile(0, 2, 1),
      SectionFile(1, MaxSections, 2), SectionFile(2, 2, 0),
      CsvSectionFile(1, MaxSections, 2),
      SectionFile(ManySections, ManySections, 1) }

RequestSemesters == {TargetSemester, OtherSemester}

AllCourseIds == {CourseA.course_id, CourseB.course_id, CourseC.course_id}

\* Semester parameters that are not 'fa' or 'sp' followed by a 4-digit year:
\* a missing parameter, a season the application does not have, a token
\* with a character in front and a token with a fifth digit.
MalformedSemesters ==
    { <<>>,
      <<"s", "u">> \o ToDigits(BaseYear + 2),
      <<"x">> \o TargetSemester,
      TargetSemester \o <<"1">> }

\* The section files and the offering filter results a report is requested
\* with: all of them for the two semesters of the plans, one for the others.
SectionFilesFor(semester) ==
    IF semester \in RequestSemesters THEN ReportSectionFiles
    ELSE {SectionFile(1, 1, 1)}

\* The calendar years in which a request may be served.
ClockYears == {BaseYear + 1, BaseYear + 2}

OfferedFor(semester) ==
    IF semester \in RequestSemesters THEN SUBSET AllCourseIds
    ELSE {AllCourseIds}

MaxCallers == 1

MaxLookupSpan == 1

OfferingCodes == <<"e", "ef", "es", "fo", "fe", "so", "se", "sp", "x", "">>

\* The table GET /api/course-offerings answers with: course CS10k carries
\* the k-th code; course CS100 has no entry.
CourseOfferingsResponse ==
    [id \in { Course(Cs, 100 + k).course_id : k \in 1..Len(OfferingCodes) } |->
        OfferingCodes[CHOOSE k \in 1..Len(OfferingCodes) :
                          Course(Cs, 100 + k).course_id = id]]

LookupCourseIds == { Course(Cs, 100 + k).course_id : k \in 0..Len(OfferingCodes) }

Seasons ==
    { <<"F", "a", "l", "l">>, <<"S", "p", "r", "i", "n", "g">>,
      <<"f", "a", "l", "l">>, <<"S", "P", "R", "I", "N", "G">>,
      <<"S", "u", "m", "m", "e", "r">> }

LookupYears == (BaseYear + 1)..(BaseYear + 1 + MaxLookupSpan)

Lookup(courseId, semester, year) ==
    [courseId |-> courseId, semester |-> semester, year |-> year]

\* The lookups a caller may issue: the first caller any of them, every
\* further caller the same two lookups of one course.
Lookups(p) ==
    IF p = 1
    THEN { Lookup(c, s, y) : c \in LookupCourseIds, s \in Seasons, y \in LookupYears }
    ELSE { Lookup(Course(Cs, 104).course_id, s, BaseYear + 1) :
              s \in { <<"F", "a", "l", "l">>, <<"S", "p", "r", "i", "n", "g">> } }

\* The validations a caller may request: the first caller any lookup, the
\* other callers none.
Validations(p) == IF p = 1 THEN Lookups(p) ELSE {}

\* The courses a caller may ask the description of: the first caller any
\* course, the other callers one.
Descriptions(p) ==
    IF p = 1 THEN LookupCourseIds ELSE {Course(Cs, 104).course_id}

GradTokens == { Token(p, y) : p \in {Fa, Sp}, y \in BaseYear..(BaseYear + MaxYearSpan) }

---------------------------------------------------------------------------
(* State                                                                   *)

VARIABLES
    students,       \* the content of app/data/students.json
    offeringCache,  \* the module variable offeringCache of the client resolver
    pending,        \* the client calls suspended in loadOfferingData
    last            \* the last completed call: its operation, inputs and result

vars == <<students, offeringCache, pending, last>>

\* The cache with two history fields that no operation reads: `stale` says
\* that the table was stored by a fetch issued before the latest
\* clearOfferingCache, `awaited` that clearOfferingCache has been called and
\* no loadOfferingData call has started since.
NoCache == [isNull |-> TRUE, table |-> <<>>, stale |-> FALSE, awaited |-> FALSE]

Cached(table, stale, awaited) ==
    [isNull |-> FALSE, table |-> table, stale |-> stale, awaited |-> awaited]

\* The cache once a loadOfferingData call has started.
LookupStarted(cache) == [cache EXCEPT !.awaited = FALSE]

\* The program counters of a call whose fetch is in flight.
FetchPcs == {"fetching", "validateFetching", "validateRefetching", "describeFetching"}

\* What a loadOfferingData call that starts now observes of the history:
\* whether it is the first since clearOfferingCache, and whether the table
\* it finds was stored by a fetch older than that clear.
StartHistory(cache) ==
    [firstAfterClear |-> cache.awaited, staleCache |-> ~cache.isNull /\ cache.stale]

\* The history of a load that was not made.
NoHistory == [firstAfterClear |-> FALSE, staleCache |-> FALSE]

Idle == [pc |-> "idle"]

NoCall == [op |-> "none"]

Callers == 1..MaxCallers

ClientIdle ==
    /\ offeringCache = NoCache
    /\ pending = [p \in Callers |-> Idle]

\* The report server: any bounded roster file, nothing requested yet.
Init ==
    /\ students \in StudentFiles
    /\ ClientIdle
    /\ last = NoCall

---------------------------------------------------------------------------
(* Report server operations. The handlers are synchronous: each runs from  *)
(* its request to its response before the next request is taken.           *)

\* getCoursesForSemester(students, semester) on the loaded roster.
AggregateCall(semester) ==
    /\ last = NoCall
    /\ last' = [op |-> "getCoursesForSemester", semester |-> semester,
                result |-> getCoursesForSemester(students, semester)]
    /\ UNCHANGED <<students, offeringCache, pending>>

\* calculateConflictLevel(courseA, courseB, ...) of either endpoint on two
\* rosters of the aggregated enrollments.
ConflictLevelCall(semester, i, j, sectionData) ==
    LET enr == getCoursesForSemester(students, semester)
    IN  /\ last = NoCall
        /\ i \in 1..Len(enr)
        /\ j \in 1..Len(enr)
        /\ i # j
        /\ last' = [op |-> "calculateConflictLevel", semester |-> semester,
                    courseA |-> enr[i], courseB |-> enr[j],
                    sectionData |-> sectionData,
                    level |-> calculateConflictLevel(enr[i], enr[j],
                                                     sectionData, semester),
                    levelSC |-> calculateConflictLevelSC(enr[i], enr[j],
                                                         sectionData, semester)]
        /\ UNCHANGED <<students, offeringCache, pending>>

\* GET /api/scheduling-conflicts
SchedulingConflictsRequest(semester, sectionData) ==
    /\ last = NoCall
    /\ last' = [op |-> "schedulingConflicts", semester |-> semester,
                sectionData |-> sectionData,
                response |-> SchedulingConflictsHandler(students, sectionData,
                                                        semester)]
    /\ UNCHANGED <<students, offeringCache, pending>>

\* GET /api/conflict-matrix
ConflictMatrixRequest(semester, sectionData, offered, currentYear) ==
    /\ last = NoCall
    /\ last' = [op |-> "conflictMatrix", semester |-> semester,
                sectionData |-> sectionData, offered |-> offered,
                currentYear |-> currentYear,
                response |-> ConflictMatrixHandler(students, sectionData,
                                                   offered, semester, currentYear)]
    /\ UNCHANGED <<students, offeringCache, pending>>

\* The result of the last call has been delivered (res.json on the server,
\* the resolved promise on the client): the next call can be observed.
ResponseSent ==
    /\ last # NoCall
    /\ last' = NoCall
    /\ UNCHANGED <<students, offeringCache, pending>>

Next ==
    \/ ResponseSent
    \/ \E semester \in RequestSemesters : AggregateCall(semester)
    \/ \E semester \in RequestSemesters, i \in 1..3, j \in 1..3,
          sectionData \in PairSectionFiles :
          ConflictLevelCall(semester, i, j, sectionData)
    \/ \E semester \in RequestSemesters \cup MalformedSemesters :
          \E sectionData \in SectionFilesFor(semester) :
              SchedulingConflictsRequest(semester, sectionData)
    \/ \E semester \in RequestSemesters \cup MalformedSemesters :
          \E sectionData \in SectionFilesFor(semester),
             offered \in OfferedFor(semester), currentYear \in ClockYears :
              ConflictMatrixRequest(semester, sectionData, offered, currentYear)

Spec == Init /\ [][Next]_vars

---------------------------------------------------------------------------
(* Standing classification as a function of (graduation term, target term) *)

InitStanding ==
    /\ students = <<>>
    /\ ClientIdle
    /\ last = NoCall

GetStudentYearCall(gradToken, semester) ==
    /\ last' = [op |-> "getStudentYear", student |-> Student(1, gradToken),
                semester |-> semester,
                result |-> getStudentYear(Student(1, gradToken), semester)]
    /\ UNCHANGED <<students, offeringCache, pending>>

NextStanding ==
    \E gradToken \in GradTokens, semester \in GradTokens :
        GetStudentYearCall(gradToken, semester)

SpecStanding == InitStanding /\ [][NextStanding]_vars

---------------------------------------------------------------------------
(* Client resolver operations                                              *)

InitOffering ==
    /\ students = <<>>
    /\ ClientIdle
    /\ last = NoCall

OfferedResult(courseId, semester, year, offerings, fetched) ==
    [op |-> "isCourseOffered", courseId |-> courseId, semester |-> semester,
     year |-> year, fetched |-> fetched,
     result |-> IsCourseOfferedWith(offerings, courseId, semester, year)]

\* isCourseOffered(courseId, semester, year) up to the first await that
\* suspends: with a cached table it runs to its result, without one
\* loadOfferingData issues the fetch.
IsCourseOfferedStart(p, courseId, semester, year) ==
    /\ last = NoCall
    /\ pending[p] = Idle
    /\ \/ /\ ~offeringCache.isNull
          /\ last' = OfferedResult(courseId, semester, year,
                                   offeringCache.table, "cache")
                      @@ [history |-> <<StartHistory(offeringCache)>>]
          /\ UNCHANGED pending
       \/ /\ offeringCache.isNull
          /\ pending' = [pending EXCEPT ![p] =
                            [pc |-> "fetching", courseId |-> courseId,
                             semester |-> semester, year |-> year,
                             clearedSince |-> FALSE,
                             history |-> StartHistory(offeringCache)]]
          /\ UNCHANGED last
    /\ offeringCache' = LookupStarted(offeringCache)
    /\ UNCHANGED students

\* The fetch answers ok and its JSON parses: the table is stored in the
\* cache and isCourseOffered resumes with it.
FetchSucceeds(p) ==
    /\ pending[p].pc = "fetching"
    /\ offeringCache' = Cached(CourseOfferingsResponse, pending[p].clearedSince,
                               offeringCache.awaited)
    /\ last' = OfferedResult(pending[p].courseId, pending[p].semester,
                             pending[p].year, CourseOfferingsResponse, "ok")
                @@ [history |-> <<pending[p].history>>]
    /\ pending' = [pending EXCEPT ![p] = Idle]
    /\ UNCHANGED students

\* The fetch throws or answers not ok: loadOfferingData returns {} and the
\* cache is left alone.
FetchFails(p) ==
    /\ pending[p].pc = "fetching"
    /\ last' = OfferedResult(pending[p].courseId, pending[p].semester,
                             pending[p].year, <<>>, "failed")
                @@ [history |-> <<pending[p].history>>]
    /\ pending' = [pending EXCEPT ![p] = Idle]
    /\ UNCHANGED <<students, offeringCache>>

\* offeringCache = null. The history fields note the call: every fetch in
\* flight is from now on a fetch issued before the latest clear.
clearOfferingCache ==
    /\ offeringCache' = [NoCache EXCEPT !.awaited = TRUE]
    /\ pending' = [p \in Callers |->
                      IF pending[p].pc \in FetchPcs
                      THEN [pending[p] EXCEPT !.clearedSince = TRUE]
                      ELSE pending[p]]
    /\ UNCHANGED <<students, last>>

\* The table a load of the given kind returned: the cached or fetched
\* table, {} after a failed fetch.
TableOf(load) ==
    IF load \in {"cache", "ok"} THEN CourseOfferingsResponse ELSE <<>>

\* The suspended validateCourseSelection(courseId, semester, year) whose
\* isCourseOffered call has answered from a load of the given kind.
Validating(courseId, semester, year, load) ==
    [pc |-> "validating", courseId |-> courseId, semester |-> semester,
     year |-> year, first |-> load, clearedSince |-> FALSE, second |-> NoHistory,
     isOffered |-> IsCourseOfferedWith(TableOf(load), courseId, semester, year)]

\* The result of validateCourseSelection, with the kinds of its two loads
\* ("none" when the second was not made).
Validated(call, second, result) ==
    [op |-> "validateCourseSelection", courseId |-> call.courseId,
     semester |-> call.semester, year |-> call.year,
     loads |-> <<call.first, second>>, isOffered |-> call.isOffered,
     result |-> result, history |-> <<call.history, call.second>>]

\* validateCourseSelection up to the first await that suspends: its
\* isCourseOffered call answers from the cache or issues the fetch.
ValidateStart(p, courseId, semester, year) ==
    /\ last = NoCall
    /\ pending[p] = Idle
    /\ pending' = [pending EXCEPT ![p] =
                      IF offeringCache.isNull
                      THEN [pc |-> "validateFetching", courseId |-> courseId,
                            semester |-> semester, year |-> year,
                            clearedSince |-> FALSE,
                            history |-> StartHistory(offeringCache)]
                      ELSE Validating(courseId, semester, year, "cache")
                           @@ [history |-> StartHistory(offeringCache)]]
    /\ offeringCache' = LookupStarted(offeringCache)
    /\ UNCHANGED <<students, last>>

\* The fetch of the isCourseOffered call answers: the table is cached.
ValidateFetchSucceeds(p) ==
    /\ pending[p].pc = "validateFetching"
    /\ offeringCache' = Cached(CourseOfferingsResponse, pending[p].clearedSince,
                               offeringCache.awaited)
    /\ pending' = [pending EXCEPT ![p] =
                      Validating(pending[p].courseId, pending[p].semester,
                                 pending[p].year, "ok")
                      @@ [history |-> pending[p].history]]
    /\ UNCHANGED <<students, last>>

\* The fetch of the isCourseOffered call fails: it answers from {}.
ValidateFetchFails(p) ==
    /\ pending[p].pc = "validateFetching"
    /\ pending' = [pending EXCEPT ![p] =
                      Validating(pending[p].courseId, pending[p].semester,
                                 pending[p].year, "failed")
                      @@ [history |-> pending[p].history]]
    /\ UNCHANGED <<students, offeringCache, last>>

\* validateCourseSelection resumes with isOffered: it returns the valid
\* result, or calls loadOfferingData again, which answers from the cache or
\* issues a fetch.
ValidateResume(p) ==
    /\ pending[p].pc = "validating"
    /\ IF pending[p].isOffered
       THEN /\ last' = Validated(pending[p], "none", ValidResult)
            /\ pending' = [pending EXCEPT ![p] = Idle]
            /\ UNCHANGED offeringCache
       ELSE IF ~offeringCache.isNull
       THEN /\ last' = Validated([pending[p] EXCEPT
                                     !.second = StartHistory(offeringCache)],
                                 "cache",
                                 InvalidResult(offeringCache.table,
                                               pending[p].courseId,
                                               pending[p].semester,
                                               pending[p].year))
            /\ pending' = [pending EXCEPT ![p] = Idle]
            /\ offeringCache' = LookupStarted(offeringCache)
       ELSE /\ pending' = [pending EXCEPT
                              ![p].pc = "validateRefetching",
                              ![p].second = StartHistory(offeringCache)]
            /\ offeringCache' = LookupStarted(offeringCache)
            /\ UNCHANGED last
    /\ UNCHANGED students

\* The second fetch answers: the table is cached and read.
ValidateRefetchSucceeds(p) ==
    /\ pending[p].pc = "validateRefetching"
    /\ offeringCache' = Cached(CourseOfferingsResponse, pending[p].clearedSince,
                               offeringCache.awaited)
    /\ last' = Validated(pending[p], "ok",
                         InvalidResult(CourseOfferingsResponse, pending[p].courseId,
                                       pending[p].semester, pending[p].year))
    /\ pending' = [pending EXCEPT ![p] = Idle]
    /\ UNCHANGED students

\* The second fetch fails: loadOfferingData returns {}.
ValidateRefetchFails(p) ==
    /\ pending[p].pc = "validateRefetching"
    /\ last' = Validated(pending[p], "failed",
                         InvalidResult(<<>>, pending[p].courseId,
                                       pending[p].semester, pending[p].year))
    /\ pending' = [pending EXCEPT ![p] = Idle]
    /\ UNCHANGED <<students, offeringCache>>

DescribedResult(courseId, offerings, fetched) ==
    [op |-> "getOfferingDescription", courseId |-> courseId, fetched |-> fetched,
     result |-> getOfferingDescription(offerings, courseId)]

\* getOfferingDescription(courseId) up to the first await that suspends.
DescribeStart(p, courseId) ==
    /\ last = NoCall
    /\ pending[p] = Idle
    /\ \/ /\ ~offeringCache.isNull
          /\ last' = DescribedResult(courseId, offeringCache.table, "cache")
                      @@ [history |-> <<StartHistory(offeringCache)>>]
          /\ UNCHANGED pending
       \/ /\ offeringCache.isNull
          /\ pending' = [pending EXCEPT ![p] =
                            [pc |-> "describeFetching", courseId |-> courseId,
                             clearedSince |-> FALSE,
                             history |-> StartHistory(offeringCache)]]
          /\ UNCHANGED last
    /\ offeringCache' = LookupStarted(offeringCache)
    /\ UNCHANGED students

\* The fetch answers: the table is cached and described from.
DescribeFetchSucceeds(p) ==
    /\ pending[p].pc = "describeFetching"
    /\ offeringCache' = Cached(CourseOfferingsResponse, pending[p].clearedSince,
                               offeringCache.awaited)
    /\ last' = DescribedResult(pending[p].courseId, CourseOfferingsResponse, "ok")
                @@ [history |-> <<pending[p].history>>]
    /\ pending' = [pending EXCEPT ![p] = Idle]
    /\ UNCHANGED students

\* The fetch fails: the description is made from {}.
DescribeFetchFails(p) ==
    /\ pending[p].pc = "describeFetching"
    /\ last' = DescribedResult(pending[p].courseId, <<>>, "failed")
                @@ [history |-> <<pending[p].history>>]
    /\ pending' = [pending EXCEPT ![p] = Idle]
    /\ UNCHANGED <<students, offeringCache>>

NextOffering ==
    \/ \E p \in Callers : \E l \in Lookups(p) :
          IsCourseOfferedStart(p, l.courseId, l.semester, l.year)
    \/ \E p \in Callers : FetchSucceeds(p)
    \/ \E p \in Callers : FetchFails(p)
    \/ \E p \in Callers : \E l \in Validations(p) :
          ValidateStart(p, l.courseId, l.semester, l.year)
    \/ \E p \in Callers : ValidateFetchSucceeds(p)
    \/ \E p \in Callers : ValidateFetchFails(p)
    \/ \E p \in Callers : ValidateResume(p)
    \/ \E p \in Callers : ValidateRefetchSucceeds(p)
    \/ \E p \in Callers : ValidateRefetchFails(p)
    \/ \E p \in Callers : \E courseId \in Descriptions(p) : DescribeStart(p, courseId)
    \/ \E p \in Callers : DescribeFetchSucceeds(p)
    \/ \E p \in Callers : DescribeFetchFails(p)
    \/ clearOfferingCache
    \/ ResponseSent

SpecOffering == InitOffering /\ [][NextOffering]_vars

---------------------------------------------------------------------------
(* Plan store: bounded inputs and operations                               *)

\* The date at which requests are served: in March of the target year the
\* target spring is current and the fall after it is future.
PlanClocks == {Clock(BaseYear + 2, 3)}

PlanSemesters == {TargetSemester, OtherSemester}

NumberCredits(n) == [isString |-> FALSE, number |-> n, text |-> <<>>]

StringCredits(text) == [isString |-> TRUE, number |-> 0, text |-> text]

\* The course object of an addCourse request.
CourseBody(course, title, credits, status) ==
    [given |-> TRUE, course_id |-> course.course_id,
     department |-> course.department, number |-> course.number,
     title |-> title, credits |-> credits, status |-> status]

NoCourseBody ==
    [given |-> FALSE, course_id |-> <<>>, department |-> <<>>, number |-> <<>>,
     title |-> "", credits |-> NumberCredits(0), status |-> ""]

\* Course A is sent with the number 3 as credits, course B with the string "4".
CreditsOfA == NumberCredits(3)

CreditsOfB == StringCredits(<<"4">>)

RequestStatuses == {"", "planned", "in_progress", "taken"}

\* Course A without a status, as planned and as taken; course B without a
\* status and as in progress.
WellFormedCourseBodies ==
    { CourseBody(CourseA, "Intro", CreditsOfA, st) :
          st \in RequestStatuses \ {"in_progress"} }
    \cup { CourseBody(CourseB, "Systems", CreditsOfB, st) : st \in {"", "in_progress"} }

InvalidCourseBodies ==
    { CourseBody(CourseA, "", CreditsOfA, "planned"),
      CourseBody(CourseA, "Intro", NumberCredits(0), "planned"),
      CourseBody(CourseA, "Intro", StringCredits(<<>>), "planned"),
      [CourseBody(CourseA, "Intro", CreditsOfA, "planned") EXCEPT !.course_id = <<>>] }

FirstStudentId == StudentIds[1]

SecondStudentId == StudentIds[2]

UnknownStudentId == "S999"

AddBody(studentId, semester, course) ==
    [studentId |-> studentId, semester |-> semester, course |-> course]

\* The addCourse requests: every well-formed course for the first student in
\* the target semester, both courses with the status left out in the other
\* semester, course A as planned for the second student, and the requests
\* the handler rejects before it reads the plan.
AddBodies ==
    { AddBody(FirstStudentId, TargetSemester, c) : c \in WellFormedCourseBodies }
    \cup { AddBody(FirstStudentId, OtherSemester, c) :
               c \in { CourseBody(CourseA, "Intro", CreditsOfA, ""),
                       CourseBody(CourseB, "Systems", CreditsOfB, "") } }
    \cup { AddBody(SecondStudentId, TargetSemester,
                   CourseBody(CourseA, "Intro", CreditsOfA, "planned")) }
    \cup { AddBody(FirstStudentId, TargetSemester, c) :
               c \in InvalidCourseBodies \cup {NoCourseBody} }
    \cup { AddBody("", TargetSemester, CourseBody(CourseA, "Intro", CreditsOfA, "")),
           AddBody(FirstStudentId, <<>>, CourseBody(CourseA, "Intro", CreditsOfA, "")),
           AddBody(UnknownStudentId, TargetSemester,
                   CourseBody(CourseA, "Intro", CreditsOfA, "")) }

RemoveBody(studentId, semester, courseId) ==
    [studentId |-> studentId, semester |-> semester, courseId |-> courseId]

RemoveBodies ==
    { RemoveBody(FirstStudentId, t, c.course_id) :
          t \in PlanSemesters, c \in {CourseA, CourseB, CourseC} }
    \cup { RemoveBody(SecondStudentId, TargetSemester, CourseA.course_id) }
    \cup { RemoveBody("", TargetSemester, CourseA.course_id),
           RemoveBody(FirstStudentId, <<>>, CourseA.course_id),
           RemoveBody(FirstStudentId, TargetSemester, <<>>),
           RemoveBody(UnknownStudentId, TargetSemester, CourseA.course_id) }

\* A request with another method than POST.
GetAddRequest ==
    AddBody(FirstStudentId, TargetSemester,
            CourseBody(CourseB, "Systems", CreditsOfB, ""))

GetRemoveRequest == RemoveBody(FirstStudentId, TargetSemester, CourseA.course_id)

\* What validateCourseSelection can answer.
ServerValidations ==
    { [valid |-> TRUE, message |-> "Course is available for this semester"],
      [valid |-> FALSE, message |-> "Course offering information not found"] }

Accepted == CHOOSE validation \in ServerValidations : validation.valid

\* A course of students.json as precombine.js writes it.
StoredCourse(course, title, credits, status) ==
    [course_id |-> course.course_id, department |-> course.department,
     number |-> course.number, title |-> title, credits |-> credits,
     status |-> status]

\* A semester of students.json as precombine.js writes it.
StoredSemester(semester, courses, semesterStatus) ==
    [semester |-> semester, courses |-> courses,
     semesterCredits |-> SumCredits(courses), semesterStatus |-> semesterStatus]

\* A student of students.json as precombine.js writes it.
StoredStudent(id, plan) ==
    [id |-> id, plan |-> plan,
     totalCredits |-> SumCredits(AllCourses(plan)),
     completedCredits |-> SumCredits(TakenOnly(AllCourses(plan))),
     plannedCredits |-> SumCredits(NotTaken(AllCourses(plan)))]

TakenA == StoredCourse(CourseA, "Intro", 3, "taken")

PlannedB == StoredCourse(CourseB, "Systems", 4, "planned")

\* The plans of the first student in the generated file.
GeneratedPlans ==
    { <<>>,
      <<StoredSemester(TargetSemester, <<TakenA>>, "current")>>,
      <<StoredSemester(TargetSemester, <<TakenA>>, "current"),
        StoredSemester(OtherSemester, <<PlannedB>>, "future")>>,
      <<StoredSemester(TargetSemester, <<TakenA, PlannedB>>, "current")>> }

\* The generated files: the first student with one of the plans above, the
\* second planning course B in the target semester.
PlanStores ==
    { <<StoredStudent(FirstStudentId, plan),
        StoredStudent(SecondStudentId,
                      <<StoredSemester(TargetSemester, <<PlannedB>>, "current")>>)>> :
        plan \in GeneratedPlans }

InitPlan ==
    /\ students \in PlanStores
    /\ ClientIdle
    /\ last = NoCall

\* The successful addCourse that the call before was, if it was one.
NoAdd == [added |-> FALSE]

AddedBefore ==
    IF last.op = "addCourse" /\ last.answer.status = 200
    THEN [added |-> TRUE, studentId |-> last.body.studentId,
          semester |-> last.body.semester,
          course_id |-> last.body.course.course_id, before |-> last.before]
    ELSE NoAdd

\* POST /api/addCourse, from the request to the response. The handler is
\* synchronous: it reads the file, changes the parsed array and writes the
\* file (or returns without writing) before another request is taken.
AddCourseRequest(method, body, clock, validation) ==
    /\ last' = [op |-> "addCourse", method |-> method, body |-> body,
                before |-> students, prior |-> NoAdd,
                answer |-> AddCourseHandler(students, method, body, clock,
                                            validation)]
    /\ students' = AddCourseHandler(students, method, body, clock, validation).file
    /\ UNCHANGED <<offeringCache, pending>>

\* POST /api/removeCourse, from the request to the response.
RemoveCourseRequest(method, body) ==
    /\ last' = [op |-> "removeCourse", method |-> method, body |-> body,
                before |-> students, prior |-> AddedBefore,
                answer |-> RemoveCourseHandler(students, method, body)]
    /\ students' = RemoveCourseHandler(students, method, body).file
    /\ UNCHANGED <<offeringCache, pending>>

NextPlan ==
    \/ \E body \in AddBodies, clock \in PlanClocks, validation \in ServerValidations :
          AddCourseRequest("POST", body, clock, validation)
    \/ \E clock \in PlanClocks :
          AddCourseRequest("GET", GetAddRequest, clock, Accepted)
    \/ \E body \in RemoveBodies : RemoveCourseRequest("POST", body)
    \/ RemoveCourseRequest("GET", GetRemoveRequest)

SpecPlan == InitPlan /\ [][NextPlan]_vars

---------------------------------------------------------------------------
(* Properties of the enrollment aggregator and of pair scoring             *)

\* The ids of the students of a roster.
RosterIds(course) == { course.students[m].id : m \in 1..Len(course.students) }

\* Whether a roster lists some student more than once.
HasRepeatedStudent(course) ==
    \E m, n \in 1..Len(course.students) :
        m < n /\ course.students[m].id = course.students[n].id

\* C1: pair scoring is symmetric. For every two rosters A and B the
\* aggregator built for a target semester and every section file, the score
\* of (A, B) equals the score of (B, A), in the matrix endpoint's scorer and
\* in the conflicts-only endpoint's scorer.
C1_PairScoringSymmetric ==
    last.op = "calculateConflictLevel" =>
        /\ last.level = calculateConflictLevel(last.courseB, last.courseA,
                                               last.sectionData, last.semester)
        /\ last.levelSC = calculateConflictLevelSC(last.courseB, last.courseA,
                                                   last.sectionData, last.semester)

\* Pair scoring on rosters that list no student twice: the two orders agree.
SymmetricWithoutRepeats ==
    (last.op = "calculateConflictLevel"
     /\ ~HasRepeatedStudent(last.courseA) /\ ~HasRepeatedStudent(last.courseB))
        => /\ last.level = calculateConflictLevel(last.courseB, last.courseA,
                                                  last.sectionData, last.semester)
           /\ last.levelSC = calculateConflictLevelSC(last.courseB, last.courseA,
                                                      last.sectionData, last.semester)

\* C2: for every roster file and every well-formed target semester the
\* matrix of the matrix report is square with side courses.length, which is
\* totalOffered; its diagonal is 0; and it is symmetric.
C2_MatrixSquareZeroDiagonalSymmetric ==
    (last.op = "conflictMatrix" /\ last.response.status = 200) =>
        LET report == last.response.report
            side == Len(report.courses)
        IN  /\ side = report.totalOffered
            /\ Len(report.matrix) = side
            /\ \A i \in 1..side : Len(report.matrix[i]) = side
            /\ \A i \in 1..side : report.matrix[i][i] = 0
            /\ \A i, j \in 1..side : report.matrix[i][j] = report.matrix[j][i]

\* Whether no student's plan holds two planned entries of one course in the
\* semester.
NoRepeatedEntry(semester) ==
    \A k \in 1..Len(students) :
        semester \in DOMAIN students[k].plan =>
            \A e, f \in 1..Len(students[k].plan[semester].courses) :
                LET courses == students[k].plan[semester].courses
                IN  (e < f /\ courses[e].status = "planned"
                     /\ courses[f].status = "planned")
                    => courses[e].course_id # courses[f].course_id

\* The matrix of a roster file without repeated planned entries is symmetric.
MatrixSymmetricWithoutRepeats ==
    (last.op = "conflictMatrix" /\ last.response.status = 200
     /\ NoRepeatedEntry(last.semester))
        => \A i, j \in 1..Len(last.response.report.matrix) :
               last.response.report.matrix[i][j] = last.response.report.matrix[j][i]

\* Whether the student's plan for exactly this semester has a planned entry
\* of the course.
PlansCourse(student, semester, courseId) ==
    /\ semester \in DOMAIN student.plan
    /\ \E e \in 1..Len(student.plan[semester].courses) :
          /\ student.plan[semester].courses[e].course_id = courseId
          /\ student.plan[semester].courses[e].status = "planned"

\* Position of a student in the roster file.
FilePosition(id) == CHOOSE k \in 1..Len(students) : students[k].id = id

\* C9: the aggregator puts a student in the roster of a course for the
\* target semester if and only if the student's plan for exactly that
\* semester has an entry of the course with status planned; no course has
\* two rosters; and each roster lists its students in the order in which the
\* student list is read.
C9_RosterMembershipAndOrder ==
    last.op = "getCoursesForSemester" =>
        LET enr == last.result
        IN  /\ \A k \in 1..Len(students), c \in AllCourseIds :
                  (\E r \in 1..Len(enr) : /\ enr[r].course_id = c
                                          /\ students[k].id \in RosterIds(enr[r]))
                  <=> PlansCourse(students[k], last.semester, c)
            /\ \A r \in 1..Len(enr) :
                  /\ enr[r].course_id \in AllCourseIds
                  /\ enr[r].students # <<>>
            /\ \A r, q \in 1..Len(enr) : enr[r].course_id = enr[q].course_id => r = q
            /\ \A r \in 1..Len(enr) :
                  \A m, n \in 1..Len(enr[r].students) :
                      m < n => FilePosition(enr[r].students[m].id)
                               <= FilePosition(enr[r].students[n].id)

\* C9 witness: an aggregation whose result has a roster of two different
\* students while some student's file holds an entry that must not count (a
\* taken or in_progress entry, or an entry of another semester) for a course
\* whose roster, if any, does not list that student.
C9_Witness ==
    /\ last.op = "getCoursesForSemester"
    /\ \E r \in 1..Len(last.result) : Cardinality(RosterIds(last.result[r])) >= 2
    /\ \E k \in 1..Len(students) : \E t \in DOMAIN students[k].plan :
          \E e \in 1..Len(students[k].plan[t].courses) :
              LET entry == students[k].plan[t].courses[e]
              IN  /\ t # last.semester \/ entry.status # "planned"
                  /\ \A r \in 1..Len(last.result) :
                        last.result[r].course_id = entry.course_id
                        => students[k].id \notin RosterIds(last.result[r])

\* C10: a duplicate planned entry is ignored. No roster the aggregator
\* builds lists a student twice, and the overlap the scorer counts for a
\* pair is the number of students that are in both rosters.
C10_DuplicateEntryIgnored ==
    /\ last.op = "getCoursesForSemester" =>
           \A r \in 1..Len(last.result) : ~HasRepeatedStudent(last.result[r])
    /\ last.op = "calculateConflictLevel" =>
           Len(OverlappingStudents(last.courseA, last.courseB))
           = Cardinality(RosterIds(last.courseA) \cap RosterIds(last.courseB))

\* The entries of roster A whose student is also in roster B.
SharedEntries(courseA, courseB) ==
    { m \in 1..Len(courseA.students) : courseA.students[m].id \in RosterIds(courseB) }

\* How many of these entries carry one of the given standings in the term.
StandingCount(courseA, courseB, semester, standings) ==
    Cardinality({ m \in SharedEntries(courseA, courseB) :
                     getStudentYear(courseA.students[m], semester) \in standings })

\* The rows of a section file for a course and a term.
SectionCount(sectionData, courseId, semester) ==
    Cardinality({ i \in 1..Len(sectionData) :
                     /\ sectionData[i].course_id = courseId
                     /\ sectionData[i].semester = semester })

\* The denominator of the rarity weight 1 / sectionCount, 1 without sections.
RarityDen(sectionCount) == IF sectionCount > 0 THEN sectionCount ELSE 1

\* level (in hundredths) is num / den rounded to two decimals: it differs
\* from the exact value by at most half a hundredth.
IsRoundedTo2(level, num, den) ==
    LET diff == level * den - 100 * num
    IN  2 * (IF diff >= 0 THEN diff ELSE 0 - diff) <= den

\* The score the formula prescribes for (A, B), as the exact fraction
\* num / den: overlap * (1/a + 1/b) * avgSeniorityWeight / 10, capped at 1,
\* where avgSeniorityWeight = (2.0 seniors + 1.5 juniors + 1.0 others) / overlap.
PrescribedScore(courseA, courseB, sectionData, semester) ==
    LET overlap == Cardinality(SharedEntries(courseA, courseB))
        seniors == StandingCount(courseA, courseB, semester, {"Senior"})
        juniors == StandingCount(courseA, courseB, semester, {"Junior"})
        others  == StandingCount(courseA, courseB, semester, {"Sophomore", "Freshman"})
        a == RarityDen(SectionCount(sectionData, courseA.course_id, semester))
        b == RarityDen(SectionCount(sectionData, courseB.course_id, semester))
        \* avgSeniorityWeight = weightSum2 / (2 * overlap)
        weightSum2 == 4 * seniors + 3 * juniors + 2 * others
        rawNum == overlap * (a + b) * weightSum2
        rawDen == a * b * 2 * overlap
    IN  IF rawNum >= 10 * rawDen THEN [num |-> 1, den |-> 1]
        ELSE [num |-> rawNum, den |-> 10 * rawDen]

ScenarioSemester == <<"s", "p", "2", "0", "2", "6">>

\* The scenario: A has 1 section, B has 3, and the 4 overlapping students
\* are 2 Seniors and 2 Sophomores in sp2026.
IsScoreScenario ==
    /\ last.op = "calculateConflictLevel"
    /\ last.semester = ScenarioSemester
    /\ SectionCount(last.sectionData, last.courseA.course_id, last.semester) = 1
    /\ SectionCount(last.sectionData, last.courseB.course_id, last.semester) = 3
    /\ Cardinality(SharedEntries(last.courseA, last.courseB)) = 4
    /\ StandingCount(last.courseA, last.courseB, last.semester, {"Senior"}) = 2
    /\ StandingCount(last.courseA, last.courseB, last.semester, {"Sophomore"}) = 2

C4_ScoresInUnitInterval ==
    /\ last.op = "calculateConflictLevel" =>
           last.level \in 0..100 /\ last.levelSC \in 0..100
    /\ (last.op = "schedulingConflicts" /\ last.response.status = 200) =>
           \A r \in 1..Len(last.response.conflicts) :
               last.response.conflicts[r].conflictLevel \in 0..100
    /\ (last.op = "conflictMatrix" /\ last.response.status = 200) =>
           LET report == last.response.report
           IN  /\ \A r \in 1..Len(report.conflicts) :
                      report.conflicts[r].conflictLevel \in 0..100
               /\ \A i \in 1..Len(report.matrix) :
                      \A j \in 1..Len(report.matrix[i]) :
                          report.matrix[i][j] \in 0..100

\* C4 witness: the matrix report of the scenario roster with one section per
\* course, where the uncapped score 4 * (1 + 1) * 1.5 / 10 = 1.2 exceeds 1:
\* the cell and the conflict record carry 1.0.
C4_Witness ==
    /\ last.op = "conflictMatrix"
    /\ last.response.status = 200
    /\ students = ScenarioStudents
    /\ last.sectionData = SectionFile(1, 1, 1)
    /\ Len(last.response.report.conflicts) = 1
    /\ last.response.report.conflicts[1].conflictLevel = 100
    /\ \E i, j \in 1..Len(last.response.report.matrix) :
          last.response.report.matrix[i][j] = 100

\* Whether no student of the roster file plans both courses in the term.
NoCommonPlanner(semester, a, b) ==
    ~\E k \in 1..Len(students) :
        PlansCourse(students[k], semester, a) /\ PlansCourse(students[k], semester, b)

\* Whether a conflict record is about the two courses, in either order.
RecordOf(rec, a, b) ==
    \/ rec.courseA = a /\ rec.courseB = b
    \/ rec.courseA = b /\ rec.courseB = a

\* C5: two courses that share no student get no conflict record in the
\* conflicts list of either report, and their two matrix cells are 0.
C5_NoOverlapNoRecord ==
    \A a, b \in AllCourseIds :
        (a # b /\ last.op \in {"schedulingConflicts", "conflictMatrix"}
         /\ last.response.status = 200
         /\ NoCommonPlanner(last.semester, a, b)) =>
            /\ last.op = "schedulingConflicts" =>
                   \A r \in 1..Len(last.response.conflicts) :
                       ~RecordOf(last.response.conflicts[r], a, b)
            /\ last.op = "conflictMatrix" =>
                   LET report == last.response.report
                   IN  /\ \A r \in 1..Len(report.conflicts) :
                              ~RecordOf(report.conflicts[r], a, b)
                       /\ \A i, j \in 1..Len(report.courses) :
                              (report.courses[i].id = a /\ report.courses[j].id = b)
                              => report.matrix[i][j] = 0 /\ report.matrix[j][i] = 0

\* C5 witness: a matrix report that lists a conflict and has two courses
\* without a common student.
C5_Witness ==
    /\ last.op = "conflictMatrix"
    /\ last.response.status = 200
    /\ Len(last.response.report.conflicts) >= 1
    /\ \E i, j \in 1..Len(last.response.report.courses) :
          /\ i # j
          /\ NoCommonPlanner(last.semester, last.response.report.courses[i].id,
                             last.response.report.courses[j].id)
          /\ last.response.report.matrix[i][j] = 0

---------------------------------------------------------------------------
(* Properties of the standing classification                               *)

\* The position of a term in the order (year, Spring < Fall): consecutive
\* terms are one half year apart.
TermIndex(token) ==
    2 * ParseInt(SliceLast4(token)) + (IF SliceFirst2(token) = Fa THEN 1 ELSE 0)

\* The standing of a student d half years before graduation.
StandingAt(d) ==
    IF d <= 1 THEN "Senior"
    ELSE IF d <= 3 THEN "Junior"
    ELSE IF d <= 5 THEN "Sophomore"
    ELSE "Freshman"

\* C6: getStudentYear classifies by the distance d from the target term to
\* the graduation term, terms ordered by (year, Spring < Fall) and 0.5 years
\* apart: Senior if d <= 0.5, Junior if d <= 1.5, Sophomore if d <= 2.5,
\* Freshman otherwise; the same (season, year) gives d = 0.
C6_ClassifiesByTermDistance ==
    last.op = "getStudentYear" =>
        last.result = StandingAt(TermIndex(last.student.expectedGraduation)
                                 - TermIndex(last.semester))

---------------------------------------------------------------------------
(* Properties of the client resolver                                       *)

\* The offering code the resolver reads for the course of the last call: the
\* entry of the table it loaded, "" when there is none.
CodeRead ==
    IF last.fetched # "failed" /\ last.courseId \in DOMAIN CourseOfferingsResponse
    THEN CourseOfferingsResponse[last.courseId]
    ELSE ""

IsFallName(semester) == ToLowerCase(semester) = FallWord

IsSpringName(semester) == ToLowerCase(semester) = SpringWord

\* The recurrence of the seven codes e, ef, es, fo, fe, so, se.
OfferedBySevenCodes(code, semester, year) ==
    \/ code = "e"
    \/ code = "ef" /\ IsFallName(semester)
    \/ code = "es" /\ IsSpringName(semester)
    \/ code = "fo" /\ IsFallName(semester) /\ year % 2 = 1
    \/ code = "fe" /\ IsFallName(semester) /\ year % 2 = 0
    \/ code = "so" /\ IsSpringName(semester) /\ year % 2 = 1
    \/ code = "se" /\ IsSpringName(semester) /\ year % 2 = 0

\* The three lookups of the scenario: a course with code fo is not offered
\* in Spring 2026, offered in Fall 2025 and not offered in Fall 2026.
OddFallScenario ==
    (last.op = "isCourseOffered" /\ CodeRead = "fo") =>
        /\ (IsSpringName(last.semester) /\ last.year = 2026) => ~last.result
        /\ (IsFallName(last.semester) /\ last.year = 2025) => last.result
        /\ (IsFallName(last.semester) /\ last.year = 2026) => ~last.result

\* C7 as stated: for the seasons Fall and Spring, isCourseOffered is true
\* exactly when the code is e; or ef and the season is Fall; or es and the
\* season is Spring; or fo / fe and the season is Fall and the year is odd /
\* even; or so / se and the season is Spring and the year is odd / even.
C7_OfferedExactlyBySevenCodes ==
    /\ (last.op = "isCourseOffered"
        /\ (IsFallName(last.semester) \/ IsSpringName(last.semester))) =>
           (last.result <=> OfferedBySevenCodes(CodeRead, last.semester, last.year))
    /\ OddFallScenario

\* C7 amended: for the seasons Fall and Spring (in any letter case),
\* isCourseOffered is true exactly when the seven codes say so or the code
\* is sp and the season is Spring; for a season name it cannot parse it is
\* false; and the fo scenario holds.
C7_OfferedBySevenCodesOrSp ==
    /\ last.op = "isCourseOffered" =>
           IF IsFallName(last.semester) \/ IsSpringName(last.semester)
           THEN last.result <=>
                    \/ OfferedBySevenCodes(CodeRead, last.semester, last.year)
                    \/ CodeRead = "sp" /\ IsSpringName(last.semester)
           ELSE ~last.result
    /\ OddFallScenario

\* C7 witness: a course with code sp looked up for a spring from the fetched
\* table is reported offered.
C7_Witness ==
    /\ last.op = "isCourseOffered"
    /\ last.fetched = "ok"
    /\ CodeRead = "sp"
    /\ IsSpringName(last.semester)
    /\ last.result

SevenCodes == {"e", "ef", "es", "fo", "fe", "so", "se"}

\* C8 as stated: for a course without an entry in the offering table, or
\* with a code other than e, ef, es, fo, fe, so, se, isCourseOffered is false
\* for every season and year.
C8_FailsClosedOutsideSevenCodes ==
    (last.op = "isCourseOffered" /\ CodeRead \notin SevenCodes) => ~last.result

\* C8 amended: for a course without an entry in the offering table, or with
\* a code other than e, ef, es, fo, fe, so, se, sp, isCourseOffered is false
\* for every season and year.
C8_FailsClosedOutsideEightCodes ==
    (last.op = "isCourseOffered" /\ CodeRead \notin SevenCodes \cup {"sp"})
        => ~last.result

\* C8 witness: a course whose code in the fetched table is none of the
\* eight has been looked up for a spring and reported not offered.
C8_Witness ==
    /\ last.op = "isCourseOffered"
    /\ last.fetched = "ok"
    /\ last.courseId \in DOMAIN CourseOfferingsResponse
    /\ CodeRead \notin SevenCodes \cup {"sp", ""}
    /\ IsSpringName(last.semester)
    /\ ~last.result

---------------------------------------------------------------------------
(* Properties of the two reports                                           *)

\* The course ids some student of the roster file plans in the semester.
PlannedIds(semester) ==
    { c \in AllCourseIds :
        \E k \in 1..Len(students) : PlansCourse(students[k], semester, c) }

\* The ids of the courses list of a matrix report.
ListedIds(report) == { report.courses[i].id : i \in 1..Len(report.courses) }

\* The codes of the courses list of a matrix report.
ListedCodes(report) == { report.courses[i].code : i \in 1..Len(report.courses) }

\* C11: the courses list of the matrix report holds exactly the planned
\* courses the offering filter lets through, each once; the matrix is over
\* that list and the conflicts list names only courses of it; totalOffered
\* is courses.length; totalPlanned is the number of distinct planned course
\* ids before the filter, so totalOffered <= totalPlanned.
C11_OfferedFilterAndTotals ==
    (last.op = "conflictMatrix" /\ last.response.status = 200) =>
        LET report == last.response.report
        IN  /\ ListedIds(report) = PlannedIds(last.semester) \cap last.offered
            /\ Cardinality(ListedIds(report)) = Len(report.courses)
            /\ Len(report.matrix) = Len(report.courses)
            /\ \A r \in 1..Len(report.conflicts) :
                  /\ report.conflicts[r].courseA \in ListedCodes(report)
                  /\ report.conflicts[r].courseB \in ListedCodes(report)
            /\ report.totalOffered = Len(report.courses)
            /\ report.totalPlanned = Cardinality(PlannedIds(last.semester))
            /\ report.totalOffered <= report.totalPlanned

\* C11 witness: a matrix report that lists a course and a conflict while a
\* planned course that is not offered is counted in totalPlanned only.
C11_Witness ==
    /\ last.op = "conflictMatrix"
    /\ last.response.status = 200
    /\ Len(last.response.report.conflicts) >= 1
    /\ PlannedIds(last.semester) \ last.offered # {}
    /\ last.response.report.totalOffered < last.response.report.totalPlanned

\* The conflicts list of the last report and the course ids the report is
\* built over: every planned course for the conflicts-only report, the
\* planned and offered courses for the matrix report.
ReportConflicts ==
    IF last.op = "schedulingConflicts" THEN last.response.conflicts
    ELSE last.response.report.conflicts

IncludedIds ==
    IF last.op = "schedulingConflicts" THEN PlannedIds(last.semester)
    ELSE PlannedIds(last.semester) \cap last.offered

IsReport ==
    /\ last.op \in {"schedulingConflicts", "conflictMatrix"}
    /\ last.response.status = 200

\* The positions of the conflicts list that hold a record of the two courses.
RecordsOf(conflicts, a, b) ==
    { r \in 1..Len(conflicts) : RecordOf(conflicts[r], a, b) }

\* C12: the conflicts list of each report holds exactly one record for each
\* unordered pair of included courses that some student plans together, in
\* one of the two orders only, and no other record.
C12_OneRecordPerOverlappingPair ==
    IsReport =>
        /\ \A a, b \in IncludedIds :
              a # b => Cardinality(RecordsOf(ReportConflicts, a, b))
                       = IF NoCommonPlanner(last.semester, a, b) THEN 0 ELSE 1
        /\ \A r \in 1..Len(ReportConflicts) :
              \E a, b \in IncludedIds :
                  a # b /\ RecordOf(ReportConflicts[r], a, b)

\* C12 witness: a report over three courses, every two of them planned
\* together by some student, lists three records.
C12_Witness ==
    /\ IsReport
    /\ Cardinality(IncludedIds) = 3
    /\ \A a, b \in IncludedIds : a # b => ~NoCommonPlanner(last.semester, a, b)
    /\ Len(ReportConflicts) = 3

\* The position of a course code in the aggregation order of the requested
\* semester (the key insertion order of courseEnrollments).
AggregationPosition(code) ==
    LET enr == getCoursesForSemester(students, last.semester)
    IN  CHOOSE i \in 1..Len(enr) : CourseCode(enr[i]) = code

\* The rank of a record's pair in the i < j enumeration of the aggregated
\* courses: pairs are generated in increasing (i, j).
GenerationRank(rec) ==
    AggregationPosition(rec.courseA) * (Cardinality(AllCourseIds) + 1)
    + AggregationPosition(rec.courseB)

\* C13: the conflicts list of each report is in non-increasing order of
\* conflictLevel, and records of equal conflictLevel are in the order in
\* which their pairs were generated.
C13_SortedDescendingStable ==
    IsReport =>
        \A r, s \in 1..Len(ReportConflicts) :
            r < s =>
                /\ ReportConflicts[r].conflictLevel >= ReportConflicts[s].conflictLevel
                /\ ReportConflicts[r].conflictLevel = ReportConflicts[s].conflictLevel
                   => GenerationRank(ReportConflicts[r]) < GenerationRank(ReportConflicts[s])

\* C13 witness: a report of three records in which the pair generated second
\* has the highest level and comes first, followed by two records of equal
\* level in generation order.
C13_Witness ==
    /\ IsReport
    /\ Len(ReportConflicts) = 3
    /\ ReportConflicts[1].conflictLevel > ReportConflicts[2].conflictLevel
    /\ ReportConflicts[2].conflictLevel = ReportConflicts[3].conflictLevel
    /\ GenerationRank(ReportConflicts[2]) < GenerationRank(ReportConflicts[1])
    /\ GenerationRank(ReportConflicts[1]) < GenerationRank(ReportConflicts[3])

\* Whether a token is exactly 'fa' or 'sp' followed by a 4-digit year.
IsWellFormedSemester(token) ==
    /\ Len(token) = 6
    /\ SubSeq(token, 1, 2) \in {Fa, Sp}
    /\ \A k \in 3..6 : IsDigit(token[k])

\* C14: both report endpoints reject a semester parameter that is not 'fa'
\* or 'sp' followed by a 4-digit year: the response is an error and carries
\* no report.
C14_MalformedSemesterRejected ==
    (last.op \in {"schedulingConflicts", "conflictMatrix"}
     /\ ~IsWellFormedSemester(last.semester))
        => last.response.status # 200

\* C15: for a well-formed semester the conflicts-only endpoint answers 200;
\* when no two planned courses share a student (in particular when nobody
\* plans anything) the conflicts list is empty and the informational message
\* is set; and the message is set exactly when the list is empty.
C15_EmptyReportWithMessage ==
    (last.op = "schedulingConflicts" /\ IsWellFormedSemester(last.semester)) =>
        /\ last.response.status = 200
        /\ (\A a, b \in PlannedIds(last.semester) :
               a # b => NoCommonPlanner(last.semester, a, b))
           => /\ last.response.conflicts = <<>>
              /\ last.response.message = NoConflictsMessage
        /\ last.response.message = NoConflictsMessage
           <=> last.response.conflicts = <<>>
        /\ last.response.message = NoMessage
           <=> last.response.conflicts # <<>>

\* C15 witness: the conflicts-only report of a semester in which courses are
\* planned, none of them together, is empty and carries the message.
C15_Witness ==
    /\ last.op = "schedulingConflicts"
    /\ IsWellFormedSemester(last.semester)
    /\ Cardinality(PlannedIds(last.semester)) >= 2
    /\ last.response.status = 200
    /\ last.response.conflicts = <<>>
    /\ last.response.message = NoConflictsMessage

\* C16: a report is a function of the student plans, the section list, the
\* offering filter and the target semester alone: built again from the same
\* inputs, in whatever calendar year, it is the same report.
C16_ReportIndependentOfDate ==
    /\ last.op = "conflictMatrix" =>
           \A currentYear \in ClockYears :
               ConflictMatrixHandler(students, last.sectionData, last.offered,
                                     last.semester, currentYear) = last.response
    /\ last.op = "schedulingConflicts" =>
           SchedulingConflictsHandler(students, last.sectionData, last.semester)
           = last.response

\* A conflict record without its two texts about graduating seniors.
WithoutSeniorTexts(rec) ==
    [courseA |-> rec.courseA, courseB |-> rec.courseB, overlap |-> rec.overlap,
     rarityImpact |-> rec.rarityImpact, conflictLevel |-> rec.conflictLevel]

\* What does not depend on the date in the matrix report: everything but
\* the seniorityImpact and the explanation of its conflict records.
DateOnlyInSeniorTexts ==
    (last.op = "conflictMatrix" /\ last.response.status = 200) =>
        \A currentYear \in ClockYears :
            LET again == generateConflictMatrix(students, last.sectionData,
                                                last.offered, last.semester,
                                                currentYear)
                report == last.response.report
            IN  /\ again.courses = report.courses
                /\ again.matrix = report.matrix
                /\ again.totalOffered = report.totalOffered
                /\ again.totalPlanned = report.totalPlanned
                /\ Len(again.conflicts) = Len(report.conflicts)
                /\ \A r \in 1..Len(report.conflicts) :
                      WithoutSeniorTexts(again.conflicts[r])
                      = WithoutSeniorTexts(report.conflicts[r])

\* The roster the aggregator builds for a course code in the requested
\* semester.
RosterOfCode(code) ==
    getCoursesForSemester(students, last.semester)[AggregationPosition(code)]

\* The overlapping students of a record's pair who graduate in a year up to
\* the target year or in exactly the target semester.
GraduatingByRule(rec) ==
    Len(SelectSeq(OverlappingStudents(RosterOfCode(rec.courseA),
                                      RosterOfCode(rec.courseB)),
                  LAMBDA student :
                      \/ student.gradYear <= ParseInt(SliceLast4(last.semester))
                      \/ student.expectedGraduation = last.semester))

\* C17: the seniorityImpact of a record of the conflicts-only report counts
\* the overlapping students whose graduation year is at most the target
\* year or whose graduation semester is the target semester; it reads 'No
\* graduating seniors affected' only when there is no such student.
C17_CountsGraduatingByRule ==
    (last.op = "schedulingConflicts" /\ IsWellFormedSemester(last.semester)) =>
        \A r \in 1..Len(last.response.conflicts) :
            last.response.conflicts[r].seniorityImpact
            = SeniorityImpactText(GraduatingByRule(last.response.conflicts[r]))

---------------------------------------------------------------------------
(* Properties of validateCourseSelection                                   *)

\* The recurrence of the eight codes of the resolver for the season names
\* Fall and Spring; no other season name is ever offered.
OfferedByPattern(code, semester, year) ==
    /\ IsFallName(semester) \/ IsSpringName(semester)
    /\ \/ OfferedBySevenCodes(code, semester, year)
       \/ code = "sp" /\ IsSpringName(semester)

\* The code of the course of the last validation in the table its first
\* (isCourseOffered) and its second load returned, "" without an entry.
FirstCode == OfferingCodeOf(TableOf(last.loads[1]), last.courseId)

SecondCode == OfferingCodeOf(TableOf(last.loads[2]), last.courseId)

\* The part of the message before the suggestion:
\* 'Course is not offered in <season> <year>. '
NotOfferedPrefix(semester, year) == NotOfferedMessage(semester, year, <<>>)

\* C18: validateCourseSelection answers valid exactly when its
\* isCourseOffered call answered true, which is when the code it loaded
\* recurs in the requested term; otherwise it answers invalid, with the
\* 'offering information not found' message when the table it loaded has no
\* entry for the course and with a 'not offered in <season> <year>' message
\* when it has one.
C18_ValidationDistinguishesCauses ==
    last.op = "validateCourseSelection" =>
        /\ last.result.valid <=> last.isOffered
        /\ last.isOffered <=> OfferedByPattern(FirstCode, last.semester, last.year)
        /\ last.result.valid => last.result.message = AvailableMessage
        /\ (~last.result.valid /\ SecondCode = "")
           => last.result.message = NotFoundMessage
        /\ (~last.result.valid /\ SecondCode # "")
           => /\ last.result.message # NotFoundMessage
              /\ StartsWith(last.result.message,
                            NotOfferedPrefix(last.semester, last.year))

\* C18 witness: with one fetched table, a course with an entry that does not
\* recur in the requested term has been answered 'not offered in ...'; the
\* next predicate is the same for a course without an entry.
C18_Witness ==
    /\ last.op = "validateCourseSelection"
    /\ last.loads = <<"ok", "cache">>
    /\ SecondCode = "fo"
    /\ IsSpringName(last.semester)
    /\ ~last.result.valid
    /\ StartsWith(last.result.message, NotOfferedPrefix(last.semester, last.year))

NotFoundReached ==
    /\ last.op = "validateCourseSelection"
    /\ last.loads = <<"ok", "cache">>
    /\ last.courseId \notin DOMAIN CourseOfferingsResponse
    /\ last.result = [valid |-> FALSE, message |-> NotFoundMessage]

\* The suggestion at the end of a 'not offered' message.
SuggestionOf(message) ==
    SubSeq(message, Len(NotOfferedPrefix(last.semester, last.year)) + 1, Len(message))

\* The term a suggestion names as next available: the season of its
\* sentence and the year written after it.
NextTermOf(suggestion) ==
    [semester |-> IF suggestion[1] \in {OddFallSentence, EvenFallSentence}
                  THEN <<"F", "a", "l", "l">>
                  ELSE <<"S", "p", "r", "i", "n", "g">>,
     year |-> ParseInt(SubSeq(suggestion, 2, Len(suggestion) - 1))]

\* The position of (season, year) in the order of terms, Spring before Fall
\* within a year.
TermPosition(semester, year) == 2 * year + (IF IsFallName(semester) THEN 1 ELSE 0)

AlternatingCodes == {"fo", "fe", "so", "se"}

\* The validation the suggestion property is about: a course with an
\* odd/even-year code, asked for a Fall or Spring in which it does not recur.
IsAlternatingNotOffered ==
    /\ last.op = "validateCourseSelection"
    /\ ~last.result.valid
    /\ SecondCode \in AlternatingCodes
    /\ IsFallName(last.semester) \/ IsSpringName(last.semester)
    /\ ~OfferedByPattern(SecondCode, last.semester, last.year)

\* C19: for a course with code fo, fe, so or se that is not offered in the
\* queried term, the term the message names as next available recurs in the
\* course's pattern, is later than the queried term, and no term between the
\* two recurs in the pattern.
C19_NextAvailableIsNearest ==
    IsAlternatingNotOffered =>
        LET next == NextTermOf(SuggestionOf(last.result.message))
            from == TermPosition(last.semester, last.year)
            to == TermPosition(next.semester, next.year)
        IN  /\ OfferedByPattern(SecondCode, next.semester, next.year)
            /\ IsCourseOfferedWith(CourseOfferingsResponse, last.courseId,
                                   next.semester, next.year)
            /\ to > from
            /\ \A year \in last.year..next.year :
                  \A semester \in { <<"F", "a", "l", "l">>,
                                    <<"S", "p", "r", "i", "n", "g">> } :
                      (from < TermPosition(semester, year)
                       /\ TermPosition(semester, year) < to)
                      => ~OfferedByPattern(SecondCode, semester, year)

\* C19 witness: a course offered in odd springs, asked for in the fall of an
\* odd year, is next available two springs later.
C19_Witness ==
    /\ IsAlternatingNotOffered
    /\ SecondCode = "so"
    /\ IsFallName(last.semester)
    /\ last.year % 2 = 1
    /\ NextTermOf(SuggestionOf(last.result.message)).year = last.year + 2

---------------------------------------------------------------------------
(* The two endpoints on the same inputs                                    *)

\* What the two endpoints are compared on: the pair, its overlap and its
\* conflictLevel.
PairScore(rec) ==
    [courseA |-> rec.courseA, courseB |-> rec.courseB, overlap |-> rec.overlap,
     conflictLevel |-> rec.conflictLevel]

\* The conflicts list of the conflicts-only report on the inputs of the last
\* matrix request, restricted to the pairs of courses of the matrix report.
RestrictedConflictsOnly ==
    SelectSeq(analyzeSchedulingConflicts(students, last.sectionData,
                                         last.semester).conflicts,
              LAMBDA rec : /\ rec.courseA \in ListedCodes(last.response.report)
                           /\ rec.courseB \in ListedCodes(last.response.report))

SameScoredList(conflicts, restricted) ==
    /\ Len(conflicts) = Len(restricted)
    /\ \A r \in 1..Len(conflicts) : PairScore(conflicts[r]) = PairScore(restricted[r])

\* C20: on the same student plans, section rows and target semester, the
\* conflicts list of the matrix report is the conflicts list of the
\* conflicts-only report restricted to the pairs of offered courses, with
\* the same overlap and the same conflictLevel, in the same order.
C20_MatrixListIsRestrictedConflictsList ==
    (last.op = "conflictMatrix" /\ last.response.status = 200) =>
        SameScoredList(last.response.report.conflicts, RestrictedConflictsOnly)

\* Whether every row of a section file carries a course_id and a semester
\* column that agree with its dept code, crs num and sem columns.
HasBothColumnSets(sectionData) ==
    \A i \in 1..Len(sectionData) :
        /\ sectionData[i].course_id = sectionData[i].dept_code \o sectionData[i].crs_num
        /\ sectionData[i].semester = sectionData[i].sem

\* On section rows that carry both column sets the two lists agree.
SameListOnBothColumnSets ==
    (last.op = "conflictMatrix" /\ last.response.status = 200
     /\ HasBothColumnSets(last.sectionData)) =>
        SameScoredList(last.response.report.conflicts, RestrictedConflictsOnly)

---------------------------------------------------------------------------
(* Properties of the plan store                                            *)

\* The last call is a successful removeCourse that takes out the course a
\* successful addCourse, the call before it, put into the same semester of
\* the same student.
IsRoundTrip ==
    /\ last.op = "removeCourse"
    /\ last.answer.status = 200
    /\ last.prior.added
    /\ last.prior.studentId = last.body.studentId
    /\ last.prior.semester = last.body.semester
    /\ last.prior.course_id = last.body.courseId

\* The student the last request names, in a content of the file.
Addressed(file) == file[StudentIndex(file, last.body.studentId)]

\* C21: a successful addCourse of a course the semester does not hold yet,
\* followed by a successful removeCourse of the same course_id in the same
\* semester, restores the student's stored plan (a semester the add created
\* is gone again) and the student's totalCredits, completedCredits and
\* plannedCredits to what they were before the add.
C21_AddRemoveRoundTrip ==
    IsRoundTrip =>
        /\ Addressed(students).plan = Addressed(last.prior.before).plan
        /\ Addressed(students).totalCredits = Addressed(last.prior.before).totalCredits
        /\ Addressed(students).completedCredits
               = Addressed(last.prior.before).completedCredits
        /\ Addressed(students).plannedCredits
               = Addressed(last.prior.before).plannedCredits
        /\ students = last.prior.before

\* A round trip through a semester the add created, next to a semester the
\* plan already had.
C21_Witness ==
    /\ IsRoundTrip
    /\ SemesterIndex(Addressed(last.prior.before).plan, last.body.semester) = 0
    /\ Addressed(last.prior.before).plan # <<>>
    /\ Addressed(last.before).totalCredits > Addressed(students).totalCredits

\* Whether no two entries of the list have the same course_id.
DistinctCourseIds(courses) ==
    \A i, j \in 1..Len(courses) :
        courses[i].course_id = courses[j].course_id => i = j

NoDuplicateCourse(file) ==
    \A k \in 1..Len(file) :
        \A s \in 1..Len(file[k].plan) : DistinctCourseIds(file[k].plan[s].courses)

\* The last call is an addCourse that got as far as reading the plan of an
\* existing student.
IsAddToStudent ==
    /\ last.op = "addCourse"
    /\ last.answer.status \notin {405, 404}
    /\ last.answer.message \notin
           { "Missing required fields: studentId, semester, course",
             "Invalid course object. Required: course_id, title, credits" }

\* Whether the semester of the student the last request names held the
\* course_id before the request.
HeldBefore(courseId) ==
    LET plan == Addressed(last.before).plan
        s == SemesterIndex(plan, last.body.semester)
    IN  s # 0 /\ CourseIndex(plan[s].courses, courseId) # 0

\* C22: from a file in which no semester of any student holds two entries
\* with the same course_id, no sequence of addCourse and removeCourse
\* requests leads to a file in which one does; an addCourse for a course the
\* semester already holds is rejected.
C22_NoDuplicateCourses ==
    /\ NoDuplicateCourse(students)
    /\ (IsAddToStudent /\ HeldBefore(last.body.course.course_id)) =>
           /\ last.answer.status = 400
           /\ last.answer.message = "Course already exists in this semester"
           /\ students = last.before

\* An addCourse rejected because the semester holds the course, sent with
\* another status than the stored entry has.
C22_Witness ==
    /\ IsAddToStudent
    /\ HeldBefore(last.body.course.course_id)
    /\ last.answer.status = 400
    /\ LET plan == Addressed(last.before).plan
           s == SemesterIndex(plan, last.body.semester)
       IN  plan[s].courses[CourseIndex(plan[s].courses,
                                       last.body.course.course_id)].status
               # NewCourse(last.body.course).status

\* The sum of the credits of the entries of `courses` whose status is in
\* `statuses`, counted from the last entry down.
RECURSIVE CreditsUpTo(_, _, _)
CreditsUpTo(courses, n, statuses) ==
    IF n = 0 THEN 0
    ELSE CreditsUpTo(courses, n - 1, statuses)
         + (IF courses[n].status \in statuses THEN courses[n].credits ELSE 0)

RECURSIVE PlanCreditsUpTo(_, _, _)
PlanCreditsUpTo(plan, n, statuses) ==
    IF n = 0 THEN 0
    ELSE PlanCreditsUpTo(plan, n - 1, statuses)
         + CreditsUpTo(plan[n].courses, Len(plan[n].courses), statuses)

StoredStatuses == {"planned", "in_progress", "taken"}

CreditsOfPlan(plan, statuses) == PlanCreditsUpTo(plan, Len(plan), statuses)

IsSuccessfulChange ==
    last.op \in {"addCourse", "removeCourse"} /\ last.answer.status = 200

\* C23: after every successful addCourse or removeCourse the student's
\* totalCredits is the sum of the credits of all courses left in the plan,
\* completedCredits the sum over the courses with status 'taken',
\* plannedCredits the sum over all other courses, so that totalCredits =
\* completedCredits + plannedCredits, and every remaining semester's
\* semesterCredits is the sum of its courses' credits.
C23_CreditsRecalculated ==
    IsSuccessfulChange =>
        LET student == Addressed(students)
        IN  /\ student.totalCredits = CreditsOfPlan(student.plan, StoredStatuses)
            /\ student.completedCredits = CreditsOfPlan(student.plan, {"taken"})
            /\ student.plannedCredits
                   = CreditsOfPlan(student.plan, StoredStatuses \ {"taken"})
            /\ student.totalCredits
                   = student.completedCredits + student.plannedCredits
            /\ \A s \in 1..Len(student.plan) :
                   student.plan[s].semesterCredits
                       = CreditsUpTo(student.plan[s].courses,
                                     Len(student.plan[s].courses), StoredStatuses)
            /\ student = last.answer.student

\* A successful change that leaves taken, in-progress and planned credits in
\* two semesters and changes all of total, planned and semester credits.
C23_Witness ==
    /\ IsSuccessfulChange
    /\ Len(Addressed(students).plan) = 2
    /\ Addressed(students).completedCredits > 0
    /\ Addressed(students).plannedCredits > Addressed(last.before).plannedCredits
    /\ \E s \in 1..Len(Addressed(students).plan) :
           \E i \in 1..Len(Addressed(students).plan[s].courses) :
               Addressed(students).plan[s].courses[i].status = "in_progress"

\* The last call is a removeCourse that found the entry it names.
IsRemoveOfEntry ==
    /\ last.op = "removeCourse"
    /\ last.method = "POST"
    /\ last.body.studentId # ""
    /\ last.body.semester # <<>>
    /\ last.body.courseId # <<>>
    /\ StudentIndex(last.before, last.body.studentId) # 0
    /\ HeldBefore(last.body.courseId)

\* The entry the last removeCourse names, as the file held it.
TargetedEntry ==
    LET plan == Addressed(last.before).plan
        s == SemesterIndex(plan, last.body.semester)
    IN  plan[s].courses[CourseIndex(plan[s].courses, last.body.courseId)]

\* Whether the semester of the student the last request names still holds
\* the course_id.
HeldAfter(courseId) ==
    LET plan == Addressed(students).plan
        s == SemesterIndex(plan, last.body.semester)
    IN  s # 0 /\ CourseIndex(plan[s].courses, courseId) # 0

\* C24: removeCourse succeeds only when the entry it names has status
\* 'planned'; for an entry with another status (taken or in_progress) the
\* request is rejected and the entry stays in the plan.
C24_OnlyPlannedRemoved ==
    IsRemoveOfEntry =>
        /\ last.answer.status = 200 => TargetedEntry.status = "planned"
        /\ TargetedEntry.status # "planned" =>
               /\ last.answer.status # 200
               /\ HeldAfter(last.body.courseId)

\* What the handler does: an entry with status 'taken' is never removed, an
\* entry with any other status is.
TakenNeverRemoved ==
    IsRemoveOfEntry =>
        IF TargetedEntry.status = "taken"
        THEN /\ last.answer.status = 400
             /\ last.answer.message = "Cannot remove completed courses"
             /\ students = last.before
        ELSE /\ last.answer.status = 200
             /\ ~HeldAfter(last.body.courseId)

IsRejectedChange ==
    last.op \in {"addCourse", "removeCourse"} /\ last.answer.status # 200

\* C30: whenever addCourse or removeCourse answers with an error, the
\* persisted student data is identical to what it was before the request;
\* in particular no empty semester has been created.
C30_RejectedChangeLeavesStore ==
    IsRejectedChange =>
        /\ students = last.before
        /\ \A k \in 1..Len(students) :
               \A s \in 1..Len(students[k].plan) :
                   students[k].plan[s].courses # <<>>

\* An addCourse rejected after the handler has created the semester in the
\* array it parsed from the file.
C30_Witness ==
    /\ IsRejectedChange
    /\ last.op = "addCourse"
    /\ last.answer.studentsData # last.before
    /\ SemesterIndex(Addressed(last.answer.studentsData).plan, last.body.semester) # 0
    /\ SemesterIndex(Addressed(students).plan, last.body.semester) = 0

\* The last call was rejected with the given message.
RejectionSeen(message) == IsRejectedChange /\ last.answer.message = message

---------------------------------------------------------------------------
(* Properties of the memoized offering table                               *)

LookupOps == {"isCourseOffered", "validateCourseSelection", "getOfferingDescription"}

\* How the loadOfferingData calls of the last lookup got their tables.
LoadsOfLast ==
    IF last.op = "validateCourseSelection" THEN last.loads ELSE <<last.fetched>>

\* A step in which the fetch of caller p answers ok.
FetchAnswersOk(p) ==
    /\ pending[p].pc \in FetchPcs
    /\ \/ /\ pending'[p] = Idle
          /\ last'.op \in {"isCourseOffered", "getOfferingDescription"}
          /\ last'.fetched = "ok"
       \/ /\ pending'[p] = Idle
          /\ last'.op = "validateCourseSelection"
          /\ last'.loads[2] = "ok"
       \/ /\ pending'[p].pc = "validating"
          /\ pending'[p].first = "ok"

\* A successful load leaves its table in the cache; the cache loses its
\* table only by clearOfferingCache; and a call issues a fetch only when the
\* cache holds no table.
FetchOnlyWithoutTable ==
    [][/\ \A p \in Callers : FetchAnswersOk(p) =>
              /\ ~offeringCache'.isNull
              /\ offeringCache'.table = CourseOfferingsResponse
       /\ (~offeringCache.isNull /\ offeringCache'.isNull) =>
              (offeringCache'.awaited /\ last' = last)
       /\ \A p \in Callers :
              (pending[p].pc \notin FetchPcs /\ pending'[p].pc \in FetchPcs) =>
                  offeringCache.isNull]_vars

\* The first loadOfferingData call that starts after clearOfferingCache
\* does not answer from the cache.
FirstLookupAfterClearFetches ==
    last.op \in LookupOps =>
        \A n \in 1..Len(LoadsOfLast) :
            last.history[n].firstAfterClear => LoadsOfLast[n] # "cache"

\* C25: after one successful load every later isCourseOffered,
\* validateCourseSelection or getOfferingDescription call answers from the
\* cached table without another fetch, until clearOfferingCache is called;
\* the first lookup after clearOfferingCache fetches the table again.
C25_MemoizedUntilCleared ==
    FetchOnlyWithoutTable /\ []FirstLookupAfterClearFetches

\* When the first load after clearOfferingCache answers from the cache,
\* the table it finds was stored by a fetch issued before that clear.
FirstLookupMissesOnlyStaleTable ==
    last.op \in LookupOps =>
        \A n \in 1..Len(LoadsOfLast) :
            (last.history[n].firstAfterClear /\ LoadsOfLast[n] = "cache")
                => last.history[n].staleCache

\* C26: once clearOfferingCache has been called, no table fetched by a
\* request that was started before the clear is stored in the cache, and
\* none is used to answer a lookup that starts after the clear, in any
\* interleaving of loadOfferingData calls and clearOfferingCache.
C26_ClearIsEffective ==
    /\ ~offeringCache.isNull => ~offeringCache.stale
    /\ last.op \in LookupOps =>
           \A n \in 1..Len(LoadsOfLast) : ~last.history[n].staleCache

---------------------------------------------------------------------------
(* Standing as a function of the graduation term                           *)

\* Senior > Junior > Sophomore > Freshman
SeniorityRank(studentYear) ==
    IF studentYear = "Senior" THEN 3
    ELSE IF studentYear = "Junior" THEN 2
    ELSE IF studentYear = "Sophomore" THEN 1
    ELSE 0

\* C27: for a fixed target semester and two graduation terms g1 <= g2 in
\* the order (year, Spring < Fall), the student graduating at g1 is never
\* classified as less senior than the student graduating at g2, and never
\* gets a smaller seniority weight.
C27_StandingMonotoneInGraduation ==
    last.op = "getStudentYear" =>
        \A later \in GradTokens :
            TermIndex(last.student.expectedGraduation) <= TermIndex(later) =>
                /\ SeniorityRank(last.result)
                       >= SeniorityRank(getStudentYear(Student(1, later),
                                                       last.semester))
                /\ WeightOfYear(last.result)
                       >= WeightOfYear(getStudentYear(Student(1, later),
                                                      last.semester))

\* The classification by term distance, which getStudentYear is meant to
\* compute, is monotone in the graduation term.
TermDistanceStandingMonotone ==
    last.op = "getStudentYear" =>
        \A later \in GradTokens :
            TermIndex(last.student.expectedGraduation) <= TermIndex(later) =>
                SeniorityRank(StandingAt(TermIndex(last.student.expectedGraduation)
                                         - TermIndex(last.semester)))
                    >= SeniorityRank(StandingAt(TermIndex(later)
                                                - TermIndex(last.semester)))

\* Among graduation terms of the same season getStudentYear is monotone.
MonotoneWithinSeason ==
    last.op = "getStudentYear" =>
        \A later \in GradTokens :
            (/\ TermIndex(last.student.expectedGraduation) <= TermIndex(later)
             /\ SliceFirst2(later) = SliceFirst2(last.student.expectedGraduation)) =>
                SeniorityRank(last.result)
                    >= SeniorityRank(getStudentYear(Student(1, later),
                                                    last.semester))

---------------------------------------------------------------------------
(* The list and the matrix of the matrix report                            *)

\* The sorted positions of the course with the given code.
PositionsOf(report, code) ==
    { p \in 1..Len(report.courses) : report.courses[p].code = code }

\* Whether the list has a record for the courses at sorted positions p, q.
HasRecordAt(report, p, q) ==
    \E n \in 1..Len(report.conflicts) :
        \/ /\ report.conflicts[n].courseA = report.courses[p].code
           /\ report.conflicts[n].courseB = report.courses[q].code
        \/ /\ report.conflicts[n].courseA = report.courses[q].code
           /\ report.conflicts[n].courseB = report.courses[p].code

ListAndMatrixAgree(report) ==
    /\ \A n \in 1..Len(report.conflicts) :
           \A p \in PositionsOf(report, report.conflicts[n].courseA) :
               \A q \in PositionsOf(report, report.conflicts[n].courseB) :
                   /\ report.matrix[p][q] = report.conflicts[n].conflictLevel
                   /\ report.matrix[q][p] = report.conflicts[n].conflictLevel
    /\ \A p, q \in 1..Len(report.courses) :
           (p # q /\ ~HasRecordAt(report, p, q)) => report.matrix[p][q] = 0

\* C28: in the matrix report, for every record of the list for the courses
\* at sorted positions p and q, matrix[p][q] = matrix[q][p] = the record's
\* conflictLevel, and every off-diagonal cell whose pair has no record is 0.
C28_ListAndMatrixAgree ==
    (last.op = "conflictMatrix" /\ last.response.status = 200) =>
        ListAndMatrixAgree(last.response.report)

\* On a roster file without repeated planned entries the list and the
\* matrix agree.
ListAndMatrixAgreeWithoutRepeats ==
    (last.op = "conflictMatrix" /\ last.response.status = 200
     /\ NoRepeatedEntry(last.semester))
        => ListAndMatrixAgree(last.response.report)

---------------------------------------------------------------------------
(* Overlaps and the scores that show them                                  *)

\* Every record of the list has a positive conflictLevel and both cells of
\* its pair in the matrix are positive.
OverlapsScorePositive(report) ==
    \A n \in 1..Len(report.conflicts) :
        report.conflicts[n].overlap > 0 =>
            /\ report.conflicts[n].conflictLevel > 0
            /\ \A p \in PositionsOf(report, report.conflicts[n].courseA) :
                   \A q \in PositionsOf(report, report.conflicts[n].courseB) :
                       report.matrix[p][q] > 0 /\ report.matrix[q][p] > 0

\* Whether every course of the section file has at most MaxSections rows
\* in the requested semester.
FewSections(sectionData, semester) ==
    \A courseId \in AllCourseIds :
        calculateCourseRarity(courseId, sectionData, semester) <= MaxSections

\* C29: whenever two courses of the matrix report have overlap > 0, the
\* conflictLevel of their record and their two matrix cells are strictly
\* greater than 0, for every section count of the two courses.
C29_OverlapScoresPositive ==
    (last.op = "conflictMatrix" /\ last.response.status = 200) =>
        OverlapsScorePositive(last.response.report)

\* With at most MaxSections sections per course every overlap has a
\* positive score.
OverlapScoresPositiveWithFewSections ==
    (last.op = "conflictMatrix" /\ last.response.status = 200
     /\ FewSections(last.sectionData, last.semester))
        => OverlapsScorePositive(last.response.report)

====
